---- MODULE Spec2Model ----
(***************************************************************************)
(* WhatsApp Dual: the PIN lock of the main process.                        *)
(*                                                                         *)
(* The security module (security.js: PIN record, failed-attempt policy,    *)
(* auto-lock, secure delete, reset, IPC handlers) and the part of main.js  *)
(* that shows and hides the lock screen and attaches the WhatsApp          *)
(* BrowserViews to the main window.                                        *)
(*                                                                         *)
(* One action per IPC handler, timer callback, dialog answer or process    *)
(* start.  JavaScript runs every handler to completion, so a handler and   *)
(* everything it calls is one atomic step.  Time is Date.now() in          *)
(* milliseconds and advances only in the action Tick.                      *)
(***************************************************************************)
EXTENDS Integers, Sequences, FiniteSets, TLC

(***************************************************************************)
(* Bounds of the model.                                                    *)
(***************************************************************************)
\* the clock advances in steps of TickMs, at most MaxTicks times
TickMs == 900000
MaxTicks == 2
\* Date.now() at the first start (any value larger than every lockout)
StartMs == 1000000000
\* number of distinct values crypto.randomBytes(32) can return
NumSalts == 1
\* the largest size of a session file, in bytes
MaxFileSize == 2
\* auto-submit timeouts of the lock window that can be pending at once
MaxAutoSubmit == 2
\* reset confirmation dialogs that can be open at once
MaxDialogs == 1
\* failed attempts counted in the specification Spec
MaxFailedHost == 1

(***************************************************************************)
(* Values.                                                                 *)
(***************************************************************************)
\* a PIN is a string, modelled as the sequence of its characters
PinA == <<"1", "2", "3", "4">>
PinLong == <<"1", "2", "3", "4", "5", "6", "7", "8">>
PinShort == <<"1", "2", "3">>
\* the empty string
PinEmpty == << >>
\* four characters, two of them letters
PinAlpha == <<"1", "2", "a", "b">>
\* nine digits
PinNine == <<"1", "2", "3", "4", "5", "6", "7", "8", "9">>

Digits == {"0", "1", "2", "3", "4", "5", "6", "7", "8", "9"}

\* the PINs the requests of the specification Spec carry
HostPins == {PinA, PinShort, PinEmpty}

\* a PIN as the documentation defines it: 4 to 8 digits
ValidPIN(pin) == /\ Len(pin) >= 4
                 /\ Len(pin) <= 8
                 /\ \A i \in 1..Len(pin) : pin[i] \in Digits

Salts == 1..NumSalts

\* a key the store does not hold: store.has(key) is false
Missing == [missing |-> TRUE]
\* security.lastFailedAttempt is << >> when the key is deleted, <<t>> when set
NoTimestamp == << >>
\* store.get(key, default) for such a key
Get(v, default) == IF v = << >> THEN default ELSE v[1]

NoView == "none"
\* lockTimer is null, or <<timeout>> while a setTimeout(timeout) is pending
NoTimer == << >>
Accounts == {"personal", "business"}
Partitions == {"persist:whatsapp-personal", "persist:whatsapp-business"}

\* Infinity of JavaScript: larger than every counter (the largest integer)
Infinity == 2147483647

\* the values the settings requests carry for security.lockoutDuration
\* (minutes)
LockoutDurationValues == {30}

AllowedKeys == {"autoLockEnabled", "autoLockTimeout", "lockOnSuspend",
                "lockOnScreenLock", "maxAttempts", "lockoutDuration",
                "deleteOnMaxAttempts"}

\* the settings objects the requests of the model carry: no key or one key
EmptySettings == << >>
SettingsInputs ==
  {EmptySettings}
    \cup {("autoLockEnabled" :> b) : b \in BOOLEAN}
    \cup {("pinEnabled" :> b) : b \in BOOLEAN}
    \cup {("lockoutDuration" :> n) : n \in LockoutDurationValues}

SECURITY_DEFAULTS ==
  [pinEnabled |-> FALSE,
   autoLockEnabled |-> TRUE,
   autoLockTimeout |-> 5,
   lockOnSuspend |-> TRUE,
   lockOnScreenLock |-> TRUE,
   maxAttempts |-> 10,
   lockoutDuration |-> 30,
   deleteOnMaxAttempts |-> FALSE]

DELAY_SCHEDULE ==
  << [attempts |-> 3, delay |-> 0],
     [attempts |-> 5, delay |-> 5000],
     [attempts |-> 7, delay |-> 30000],
     [attempts |-> 9, delay |-> 300000],
     [attempts |-> Infinity, delay |-> 1800000] >>

VARIABLES
  store,      \* electron-store: the persisted security.* keys
  mem,        \* module state of security.js and main.js (lost at exit)
  sessions,   \* the session partitions on disk
  dialogs,    \* open "Reset App" message boxes, by origin
  now,        \* Date.now()
  encAvail,   \* safeStorage.isEncryptionAvailable()
  last,       \* the request handled last, with the result returned for it
  prev        \* the successful setPIN or unlock handled just before it, if
              \* any; Untracked throughout in Spec, which does not keep it

vars == <<store, mem, sessions, dialogs, now, encAvail, last, prev>>

(***************************************************************************)
(* security.js: PIN record.                                                *)
(***************************************************************************)
\* PBKDF2 is modelled as an injective function of (pin, salt)
hashPIN(pin, salt) == <<"pbkdf2-sha512", pin, salt>>

isPINSet(st) == st.pinData # Missing

isPINEnabled(st) == st.pinEnabled /\ isPINSet(st)

resetFailedAttempts(st) ==
  [st EXCEPT !.failedAttempts = 0, !.lastFailedAttempt = NoTimestamp]

\* the stored blob: JSON {salt, hash}, encrypted by safeStorage when that is
\* available and plain otherwise, then base64
EncodePinData(salt, hash, avail) ==
  [encrypted |-> avail, salt |-> salt, hash |-> hash]

\* decryptString throws on a blob that was not encrypted, JSON.parse throws
\* on one that was
CanDecodePinData(blob, avail) == blob.encrypted = avail

\* setPIN without the call of resetFailedAttempts
setPIN_KeepsCounter(st, pin, salt, avail) ==
  IF Len(pin) = 0 \/ Len(pin) < 4 \/ Len(pin) > 8
  THEN <<st, FALSE>>
  ELSE <<[st EXCEPT !.pinData = EncodePinData(salt, hashPIN(pin, salt), avail),
                    !.pinEnabled = TRUE],
         TRUE>>

\* setPIN: returns <<store', ok>>
setPIN(st, pin, salt, avail) ==
  IF Len(pin) = 0 \/ Len(pin) < 4 \/ Len(pin) > 8
  THEN <<st, FALSE>>
  ELSE <<resetFailedAttempts(
           [st EXCEPT !.pinData = EncodePinData(salt, hashPIN(pin, salt), avail),
                      !.pinEnabled = TRUE]),
         TRUE>>

(***************************************************************************)
(* security.js: failed attempts.  The operators that delete sessions or    *)
(* open a dialog work on w = [store, sessions, dialogs].                   *)
(***************************************************************************)
RECURSIVE DelayFrom(_, _)
\* the loop comparing with < in place of <=
DelayFrom_Strict(i, attempts) ==
  IF i > Len(DELAY_SCHEDULE)
  THEN DELAY_SCHEDULE[Len(DELAY_SCHEDULE)].delay
  ELSE IF attempts < DELAY_SCHEDULE[i].attempts
       THEN DELAY_SCHEDULE[i].delay
       ELSE DelayFrom(i + 1, attempts)

DelayFrom(i, attempts) ==
  IF i > Len(DELAY_SCHEDULE)
  THEN DELAY_SCHEDULE[Len(DELAY_SCHEDULE)].delay
  ELSE IF attempts <= DELAY_SCHEDULE[i].attempts
       THEN DELAY_SCHEDULE[i].delay
       ELSE DelayFrom(i + 1, attempts)

getDelayForAttempts(attempts) == DelayFrom(1, attempts)

Max(a, b) == IF a >= b THEN a ELSE b

\* Math.ceil(ms / 60000)
CeilMinutes(ms) == (ms + 59999) \div 60000

(***************************************************************************)
(* security.js: secure delete, file by file.  A file is a record           *)
(*   exists, size (bytes), content ("data" as written by the session,      *)
(*   "random" after an overwrite that succeeded).                          *)
(* Every call of fs can fail: fault names the call of the try block that   *)
(* throws ("none": none does), fallbackFails says that the unlinkSync of   *)
(* the catch block throws.  A writeFileSync that throws (a read-only file) *)
(* leaves the content as it was.  ops lists the calls of fs made on the    *)
(* file, as <<name, bytes, succeeded>>; returned is the value the caller   *)
(* gets (undefined: << >>); thrown: an exception leaves the function.      *)
(***************************************************************************)
Faults == {"none", "statSync", "write1", "write2", "write3", "unlinkSync"}
WriteFault == <<"write1", "write2", "write3">>
Undefined == << >>

RECURSIVE Overwrite(_, _, _, _)
\* the loop running two passes
Overwrite_TwoPasses(file, pass, fault, ops) ==
  IF pass >= 2
  THEN [file |-> file, ops |-> ops, threw |-> FALSE]
  ELSE IF fault = WriteFault[pass + 1]
  THEN [file |-> file,
        ops |-> Append(ops, <<"writeFileSync", file.size, FALSE>>),
        threw |-> TRUE]
  ELSE Overwrite([file EXCEPT !.content = "random"], pass + 1, fault,
                 Append(ops, <<"writeFileSync", file.size, TRUE>>))

\* for (pass = 0; pass < 3; pass++) writeFileSync(filePath, randomBytes(size))
Overwrite(file, pass, fault, ops) ==
  IF pass >= 3
  THEN [file |-> file, ops |-> ops, threw |-> FALSE]
  ELSE IF fault = WriteFault[pass + 1]
  THEN [file |-> file,
        ops |-> Append(ops, <<"writeFileSync", file.size, FALSE>>),
        threw |-> TRUE]
  ELSE Overwrite([file EXCEPT !.content = "random"], pass + 1, fault,
                 Append(ops, <<"writeFileSync", file.size, TRUE>>))

\* the try block of secureDeleteFile on a file that exists
secureDeleteFileTry(file, fault) ==
  IF fault = "statSync"
  THEN [file |-> file, ops |-> << <<"statSync", 0, FALSE>> >>, threw |-> TRUE]
  ELSE LET o == Overwrite(file, 0, fault, << <<"statSync", 0, TRUE>> >>)
       IN IF o.threw THEN o
          ELSE IF fault = "unlinkSync"
          THEN [file |-> o.file,
                ops |-> Append(o.ops, <<"unlinkSync", 0, FALSE>>),
                threw |-> TRUE]
          ELSE [file |-> [o.file EXCEPT !.exists = FALSE],
                ops |-> Append(o.ops, <<"unlinkSync", 0, TRUE>>),
                threw |-> FALSE]

\* returns [file, ops, returned, thrown]
secureDeleteFile(file, fault, fallbackFails) ==
  IF ~file.exists
  THEN [file |-> file, ops |-> << >>, returned |-> Undefined, thrown |-> FALSE]
  ELSE LET body == secureDeleteFileTry(file, fault)
       IN IF ~body.threw
          THEN [file |-> body.file, ops |-> body.ops,
                returned |-> Undefined, thrown |-> FALSE]
          ELSE IF fallbackFails
          THEN [file |-> body.file,
                ops |-> Append(body.ops, <<"unlinkSync", 0, FALSE>>),
                returned |-> Undefined, thrown |-> FALSE]
          ELSE [file |-> [body.file EXCEPT !.exists = FALSE],
                ops |-> Append(body.ops, <<"unlinkSync", 0, TRUE>>),
                returned |-> Undefined, thrown |-> FALSE]

\* secureDeleteSession on the files of a partition: faults and fallbackFails
\* give the failures for each file, rmFails says that fs.rmSync throws.  The
\* partition exists when one of its files does.  rmSync (recursive, force)
\* removes whatever is left; when it throws the error is logged only.
\* returns [files, returned, thrown]
secureDeleteSession(files, faults, fallbackFails, rmFails) ==
  IF \A f \in DOMAIN files : ~files[f].exists
  THEN [files |-> files, returned |-> Undefined, thrown |-> FALSE]
  ELSE LET deleted == [f \in DOMAIN files |->
                         secureDeleteFile(files[f], faults[f], fallbackFails).file]
       IN IF rmFails
          THEN [files |-> deleted, returned |-> Undefined, thrown |-> FALSE]
          ELSE [files |-> [f \in DOMAIN files |-> [deleted[f] EXCEPT !.exists = FALSE]],
                returned |-> Undefined, thrown |-> FALSE]

\* secureDeleteAllSessions without store.delete('security.sessionHashes')
secureDeleteAllSessions_KeepsSnapshot(w) ==
  [w EXCEPT !.sessions = [p \in Partitions |-> "absent"]]

\* fs removes every file of both partitions; the snapshot key is deleted
secureDeleteAllSessions(w) ==
  [w EXCEPT !.sessions = [p \in Partitions |-> "absent"],
            !.store.sessionHashes = Missing]

\* resetApp only opens the confirmation box; the answer comes later
\* (ResetDialogAnswer)
resetApp(w, origin) ==
  [w EXCEPT !.dialogs[origin] = @ + 1]

\* handleFailedAttempt deciding on the count read, not on the count stored
handleFailedAttempt_StaleDecision(w, t) ==
  LET attempts == w.store.failedAttempts + 1
      stale == w.store.failedAttempts
      maxAttempts == w.store.maxAttempts
      w1 == [w EXCEPT !.store.failedAttempts = attempts,
                      !.store.lastFailedAttempt = <<t>>]
      delay == getDelayForAttempts(stale)
      remaining == Max(0, maxAttempts - attempts)
  IN IF stale >= maxAttempts /\ w.store.deleteOnMaxAttempts
     THEN [w |-> resetApp(secureDeleteAllSessions(w1), "paranoia"),
           res |-> [success |-> FALSE, deleted |-> TRUE,
                    message |-> <<"Maximum attempts reached. All sessions have been deleted.">>]]
     ELSE [w |-> w1,
           res |-> [success |-> FALSE, attempts |-> attempts,
                    remaining |-> remaining, delay |-> delay,
                    locked |-> (stale >= maxAttempts),
                    message |-> IF remaining > 0
                                THEN <<"Incorrect PIN.", remaining, "attempts remaining.">>
                                ELSE <<"Maximum attempts reached. Please wait.">>]]

\* handleFailedAttempt wiping one attempt late (> in place of >=)
handleFailedAttempt_LateWipe(w, t) ==
  LET attempts == w.store.failedAttempts + 1
      maxAttempts == w.store.maxAttempts
      w1 == [w EXCEPT !.store.failedAttempts = attempts,
                      !.store.lastFailedAttempt = <<t>>]
      delay == getDelayForAttempts(attempts)
      remaining == Max(0, maxAttempts - attempts)
  IN IF attempts > maxAttempts /\ w.store.deleteOnMaxAttempts
     THEN [w |-> resetApp(secureDeleteAllSessions(w1), "paranoia"),
           res |-> [success |-> FALSE, deleted |-> TRUE,
                    message |-> <<"Maximum attempts reached. All sessions have been deleted.">>]]
     ELSE [w |-> w1,
           res |-> [success |-> FALSE, attempts |-> attempts,
                    remaining |-> remaining, delay |-> delay,
                    locked |-> (attempts >= maxAttempts),
                    message |-> IF remaining > 0
                                THEN <<"Incorrect PIN.", remaining, "attempts remaining.">>
                                ELSE <<"Maximum attempts reached. Please wait.">>]]

\* handleFailedAttempt without store.set('security.failedAttempts', attempts)
handleFailedAttempt_NotStored(w, t) ==
  LET attempts == w.store.failedAttempts + 1
      maxAttempts == w.store.maxAttempts
      w1 == [w EXCEPT !.store.lastFailedAttempt = <<t>>]
      delay == getDelayForAttempts(attempts)
      remaining == Max(0, maxAttempts - attempts)
  IN IF attempts >= maxAttempts /\ w.store.deleteOnMaxAttempts
     THEN [w |-> resetApp(secureDeleteAllSessions(w1), "paranoia"),
           res |-> [success |-> FALSE, deleted |-> TRUE,
                    message |-> <<"Maximum attempts reached. All sessions have been deleted.">>]]
     ELSE [w |-> w1,
           res |-> [success |-> FALSE, attempts |-> attempts,
                    remaining |-> remaining, delay |-> delay,
                    locked |-> (attempts >= maxAttempts),
                    message |-> IF remaining > 0
                                THEN <<"Incorrect PIN.", remaining, "attempts remaining.">>
                                ELSE <<"Maximum attempts reached. Please wait.">>]]

\* returns [w, res]
handleFailedAttempt(w, t) ==
  LET attempts == w.store.failedAttempts + 1
      maxAttempts == w.store.maxAttempts
      w1 == [w EXCEPT !.store.failedAttempts = attempts,
                      !.store.lastFailedAttempt = <<t>>]
      delay == getDelayForAttempts(attempts)
      remaining == Max(0, maxAttempts - attempts)
  IN IF attempts >= maxAttempts /\ w.store.deleteOnMaxAttempts
     THEN [w |-> resetApp(secureDeleteAllSessions(w1), "paranoia"),
           res |-> [success |-> FALSE, deleted |-> TRUE,
                    message |-> <<"Maximum attempts reached. All sessions have been deleted.">>]]
     ELSE [w |-> w1,
           res |-> [success |-> FALSE, attempts |-> attempts,
                    remaining |-> remaining, delay |-> delay,
                    locked |-> (attempts >= maxAttempts),
                    message |-> IF remaining > 0
                                THEN <<"Incorrect PIN.", remaining, "attempts remaining.">>
                                ELSE <<"Maximum attempts reached. Please wait.">>]]

\* checkLockout without resetFailedAttempts when the lockout has expired
checkLockout_NoReset(st, t) ==
  LET attempts == st.failedAttempts
      maxAttempts == st.maxAttempts
      lastFailed == Get(st.lastFailedAttempt, 0)
      lockoutDuration == st.lockoutDuration * 60 * 1000
      elapsed == t - lastFailed
  IN IF attempts >= maxAttempts
     THEN IF elapsed < lockoutDuration
          THEN [store |-> st,
                res |-> [locked |-> TRUE, remainingTime |-> lockoutDuration - elapsed]]
          ELSE [store |-> st, res |-> [locked |-> FALSE]]
     ELSE [store |-> st, res |-> [locked |-> FALSE]]

\* checkLockout comparing with > in place of >=
checkLockout_OffByOne(st, t) ==
  LET attempts == st.failedAttempts
      maxAttempts == st.maxAttempts
      lastFailed == Get(st.lastFailedAttempt, 0)
      lockoutDuration == st.lockoutDuration * 60 * 1000
      elapsed == t - lastFailed
  IN IF attempts > maxAttempts
     THEN IF elapsed < lockoutDuration
          THEN [store |-> st,
                res |-> [locked |-> TRUE, remainingTime |-> lockoutDuration - elapsed]]
          ELSE [store |-> resetFailedAttempts(st), res |-> [locked |-> FALSE]]
     ELSE [store |-> st, res |-> [locked |-> FALSE]]

\* returns [store, res]
checkLockout(st, t) ==
  LET attempts == st.failedAttempts
      maxAttempts == st.maxAttempts
      lastFailed == Get(st.lastFailedAttempt, 0)
      lockoutDuration == st.lockoutDuration * 60 * 1000
      elapsed == t - lastFailed
  IN IF attempts >= maxAttempts
     THEN IF elapsed < lockoutDuration
          THEN [store |-> st,
                res |-> [locked |-> TRUE, remainingTime |-> lockoutDuration - elapsed]]
          ELSE [store |-> resetFailedAttempts(st), res |-> [locked |-> FALSE]]
     ELSE [store |-> st, res |-> [locked |-> FALSE]]

\* verifyPIN whose catch block returns success
verifyPIN_ErrorSucceeds(w, pin, t, avail) ==
  LET lockoutStatus == checkLockout(w.store, t)
      w1 == [w EXCEPT !.store = lockoutStatus.store]
      storedData == w1.store.pinData
  IN IF lockoutStatus.res.locked
     THEN [w |-> w1,
           res |-> [success |-> FALSE, locked |-> TRUE,
                    remainingTime |-> lockoutStatus.res.remainingTime,
                    message |-> <<"Locked out. Try again in",
                                  CeilMinutes(lockoutStatus.res.remainingTime),
                                  "minutes.">>]]
     ELSE IF storedData = Missing
     THEN [w |-> w1, res |-> [success |-> FALSE, message |-> <<"PIN not set">>]]
     ELSE IF ~CanDecodePinData(storedData, avail)
     THEN [w |-> w1, res |-> [success |-> TRUE, message |-> <<"Verification error">>]]
     ELSE IF hashPIN(pin, storedData.salt) = storedData.hash
     THEN [w |-> [w1 EXCEPT !.store = resetFailedAttempts(@)],
           res |-> [success |-> TRUE]]
     ELSE handleFailedAttempt(w1, t)

\* verifyPIN without the call of resetFailedAttempts on a match
verifyPIN_NoReset(w, pin, t, avail) ==
  LET lockoutStatus == checkLockout(w.store, t)
      w1 == [w EXCEPT !.store = lockoutStatus.store]
      storedData == w1.store.pinData
  IN IF lockoutStatus.res.locked
     THEN [w |-> w1,
           res |-> [success |-> FALSE, locked |-> TRUE,
                    remainingTime |-> lockoutStatus.res.remainingTime,
                    message |-> <<"Locked out. Try again in",
                                  CeilMinutes(lockoutStatus.res.remainingTime),
                                  "minutes.">>]]
     ELSE IF storedData = Missing
     THEN [w |-> w1, res |-> [success |-> FALSE, message |-> <<"PIN not set">>]]
     ELSE IF ~CanDecodePinData(storedData, avail)
     THEN [w |-> w1, res |-> [success |-> FALSE, message |-> <<"Verification error">>]]
     ELSE IF hashPIN(pin, storedData.salt) = storedData.hash
     THEN [w |-> w1,
           res |-> [success |-> TRUE]]
     ELSE handleFailedAttempt(w1, t)

\* returns [w, res]
verifyPIN(w, pin, t, avail) ==
  LET lockoutStatus == checkLockout(w.store, t)
      w1 == [w EXCEPT !.store = lockoutStatus.store]
      storedData == w1.store.pinData
  IN IF lockoutStatus.res.locked
     THEN [w |-> w1,
           res |-> [success |-> FALSE, locked |-> TRUE,
                    remainingTime |-> lockoutStatus.res.remainingTime,
                    message |-> <<"Locked out. Try again in",
                                  CeilMinutes(lockoutStatus.res.remainingTime),
                                  "minutes.">>]]
     ELSE IF storedData = Missing
     THEN [w |-> w1, res |-> [success |-> FALSE, message |-> <<"PIN not set">>]]
     ELSE IF ~CanDecodePinData(storedData, avail)
     THEN [w |-> w1, res |-> [success |-> FALSE, message |-> <<"Verification error">>]]
     ELSE IF hashPIN(pin, storedData.salt) = storedData.hash
     THEN [w |-> [w1 EXCEPT !.store = resetFailedAttempts(@)],
           res |-> [success |-> TRUE]]
     ELSE handleFailedAttempt(w1, t)

\* changePIN comparing the hash itself, without verifyPIN
changePIN_NoCount(w, currentPIN, newPIN, salt, t, avail) ==
  LET set == setPIN(w.store, newPIN, salt, avail)
  IN IF \/ w.store.pinData = Missing
        \/ hashPIN(currentPIN, w.store.pinData.salt) # w.store.pinData.hash
     THEN [w |-> w,
           res |-> [success |-> FALSE, message |-> <<"Current PIN is incorrect">>]]
     ELSE IF set[2]
     THEN [w |-> [w EXCEPT !.store = set[1]],
           res |-> [success |-> TRUE]]
     ELSE [w |-> w,
           res |-> [success |-> FALSE, message |-> <<"Failed to set new PIN">>]]

\* returns [w, res]
changePIN(w, currentPIN, newPIN, salt, t, avail) ==
  LET verification == verifyPIN(w, currentPIN, t, avail)
      set == setPIN(verification.w.store, newPIN, salt, avail)
  IN IF ~verification.res.success
     THEN [w |-> verification.w,
           res |-> [success |-> FALSE, message |-> <<"Current PIN is incorrect">>]]
     ELSE IF set[2]
     THEN [w |-> [verification.w EXCEPT !.store = set[1]],
           res |-> [success |-> TRUE]]
     ELSE [w |-> verification.w,
           res |-> [success |-> FALSE, message |-> <<"Failed to set new PIN">>]]

\* returns [w, res]
removePIN(w, currentPIN, t, avail) ==
  LET verification == verifyPIN(w, currentPIN, t, avail)
  IN IF ~verification.res.success
     THEN [w |-> verification.w,
           res |-> [success |-> FALSE, message |-> <<"PIN is incorrect">>]]
     ELSE [w |-> [verification.w EXCEPT
                    !.store = resetFailedAttempts(
                                [@ EXCEPT !.pinData = Missing, !.pinEnabled = FALSE])],
           res |-> [success |-> TRUE]]

(***************************************************************************)
(* main.js: lock screen and views.  m is the module state                  *)
(*   isLocked, lockTimer            (security.js)                          *)
(*   leakedTimers: the pending timeouts of lockApp lockTimer does not      *)
(*     refer to                                                            *)
(*   isShowingLockScreen, lockWindow, currentAccount   (main.js)           *)
(*   attached: the BrowserView attached to the main window, or NoView      *)
(*   suspendListener, lockScreenListener: the powerMonitor listeners       *)
(*     initAutoLock has registered                                         *)
(*   integrityWarning: the "Security Alert" message box is open            *)
(*   ui: the state of the renderer of the lock window (lock.js), which     *)
(*     starts anew with every window                                       *)
(* lockWindow is "none", "lock" (lock.html) or "setup" (lock-setup.html).  *)
(***************************************************************************)
\* lock.js: isLocked and lockoutEndTime (NaN when handleLockout was given
\* no remaining time), the disabled attribute of the numpad buttons, the
\* times at which the pending timeouts of disableInput enable them again,
\* and whether init has had the reply to its checkLockout request;
\* currentPIN, isSubmitting, the PIN of the security.unlock request awaited
\* (<<pin>>, or << >> when none is), and the numbers of pending timeouts of
\* addDigit (auto-submit) and of showPINError (clearPIN)
UiInit ==
  [currentPIN |-> << >>,
   isSubmitting |-> FALSE,
   inFlight |-> << >>,
   submitTimers |-> 0,
   clearTimers |-> 0,
   initialized |-> FALSE,
   isLocked |-> FALSE,
   lockoutEndTime |-> NoTimestamp,
   lockoutEndNaN |-> FALSE,
   numpadDisabled |-> FALSE,
   inputTimers |-> {}]

switchAccount(m, accountId) ==
  [m EXCEPT !.currentAccount = accountId, !.attached = accountId]

showLockScreen(m) ==
  IF m.lockWindow # "none"
  THEN m
  ELSE [m EXCEPT !.isShowingLockScreen = TRUE,
                 !.attached = NoView,
                 !.lockWindow = "lock",
                 !.ui = UiInit]

hideLockScreen(m) ==
  [m EXCEPT !.isShowingLockScreen = FALSE,
            !.lockWindow = "none",
            !.attached = m.currentAccount,
            !.ui = UiInit]

showPINSetupScreen(m) ==
  [m EXCEPT !.lockWindow = "setup", !.ui = UiInit]

(***************************************************************************)
(* security.js: auto-lock, lock and unlock.                                *)
(***************************************************************************)
\* clearTimeout(lockTimer): the timeout lockTimer refers to is cancelled
clearTimeout(m) == [m EXCEPT !.lockTimer = NoTimer]

\* lockTimer = setTimeout(lockApp, timeout): a timeout lockTimer still
\* refers to stays pending with no variable left to cancel it by
setLockTimer(m, timeout) ==
  [m EXCEPT !.leakedTimers = @ + (IF m.lockTimer # NoTimer THEN 1 ELSE 0),
            !.lockTimer = <<timeout>>]

\* resetLockTimer without clearTimeout
resetLockTimer_NoClear(m, st) ==
  IF ~st.autoLockEnabled THEN m
  ELSE IF ~isPINEnabled(st) THEN m
  ELSE setLockTimer(m, st.autoLockTimeout * 60 * 1000)

resetLockTimer(m, st) ==
  IF ~st.autoLockEnabled THEN m
  ELSE IF ~isPINEnabled(st) THEN m
  ELSE setLockTimer(clearTimeout(m), st.autoLockTimeout * 60 * 1000)

\* lockApp without the test of isLocked
lockApp_Again(m, st) ==
  IF ~isPINEnabled(st)
  THEN m
  ELSE showLockScreen([m EXCEPT !.isLocked = TRUE, !.lockTimer = NoTimer])

\* onLockCallback is showLockScreen (initializeSecurity)
lockApp(m, st) ==
  IF m.isLocked \/ ~isPINEnabled(st)
  THEN m
  ELSE showLockScreen([m EXCEPT !.isLocked = TRUE, !.lockTimer = NoTimer])

isAppLocked(m) == m.isLocked

\* the number of times lockApp calls onLockCallback
lockCalls(m, st) == IF m.isLocked \/ ~isPINEnabled(st) THEN 0 ELSE 1

\* onUnlockCallback is hideLockScreen; returns [w, m, res, calls], calls the
\* number of times onUnlockCallback is called
unlockApp(w, m, pin, t, avail) ==
  LET result == verifyPIN(w, pin, t, avail)
  IN [w |-> result.w,
      m |-> IF result.res.success
            THEN hideLockScreen(
                   resetLockTimer([m EXCEPT !.isLocked = FALSE], result.w.store))
            ELSE m,
      res |-> result.res,
      calls |-> IF result.res.success THEN 1 ELSE 0]

updateSecuritySettings(st, settings) ==
  [k \in DOMAIN st |->
     IF k \in DOMAIN settings /\ k \in AllowedKeys THEN settings[k] ELSE st[k]]

(***************************************************************************)
(* Process start: app.whenReady (createWindow, initializeSecurity, lock     *)
(* screen when the PIN is enabled).                                         *)
(***************************************************************************)
\* null when the partition does not exist, the digest of its files otherwise
calculateSessionHash(content) ==
  IF content = "absent" THEN Missing ELSE [sha256 |-> content]

\* before-quit: saveSessionHashes (the timestamp of the snapshot is left out)
saveSessionHashes(st, sess) ==
  [st EXCEPT !.sessionHashes =
     [p \in Partitions |-> calculateSessionHash(sess[p])]]

verifySessionIntegrity(st, sess) ==
  LET saved == st.sessionHashes
  IN IF saved = Missing
     THEN [verified |-> TRUE, firstRun |-> TRUE]
     ELSE [verified |->
             \A p \in Partitions :
                saved[p] = Missing \/ calculateSessionHash(sess[p]) = saved[p],
           firstRun |-> FALSE]

\* initAutoLock: the listeners are registered by the settings read here, and
\* a listener registered by an earlier call stays
initAutoLock(m, st) ==
  resetLockTimer([m EXCEPT !.suspendListener = @ \/ st.lockOnSuspend,
                           !.lockScreenListener = @ \/ st.lockOnScreenLock],
                 st)

Startup(st, sess) ==
  LET created == switchAccount(
                   [isLocked |-> FALSE, lockTimer |-> NoTimer,
                    leakedTimers |-> 0,
                    isShowingLockScreen |-> FALSE, lockWindow |-> "none",
                    currentAccount |-> "personal", attached |-> NoView,
                    suspendListener |-> FALSE, lockScreenListener |-> FALSE,
                    integrityWarning |-> FALSE, ui |-> UiInit],
                   "personal")
      integrity == verifySessionIntegrity(st, sess)
      warned == [created EXCEPT !.integrityWarning =
                   ~integrity.verified /\ ~integrity.firstRun]
      initialized == initAutoLock(warned, st)
  IN IF isPINEnabled(st) THEN showLockScreen(initialized) ELSE initialized

(***************************************************************************)
(* Initial state: first start after installation.                          *)
(***************************************************************************)
InitStore ==
  [pinData |-> Missing,
   pinEnabled |-> SECURITY_DEFAULTS.pinEnabled,
   failedAttempts |-> 0,
   lastFailedAttempt |-> NoTimestamp,
   autoLockEnabled |-> SECURITY_DEFAULTS.autoLockEnabled,
   autoLockTimeout |-> SECURITY_DEFAULTS.autoLockTimeout,
   lockOnSuspend |-> SECURITY_DEFAULTS.lockOnSuspend,
   lockOnScreenLock |-> SECURITY_DEFAULTS.lockOnScreenLock,
   maxAttempts |-> SECURITY_DEFAULTS.maxAttempts,
   lockoutDuration |-> SECURITY_DEFAULTS.lockoutDuration,
   deleteOnMaxAttempts |-> SECURITY_DEFAULTS.deleteOnMaxAttempts,
   sessionHashes |-> Missing]

NoDialogs == [origin \in {"paranoia", "manual"} |-> 0]

\* before: security.failedAttempts when the request arrived
Request(op, arg, res, before) ==
  [op |-> op, arg |-> arg, res |-> res, before |-> before]

Untracked == <<"untracked">>

\* what prev keeps of a request
Summary(r) ==
  IF r.op \in {"setPIN", "unlock"} /\ r.res.success
  THEN <<r.op, r.arg, r.before>>
  ELSE <<"other">>

Init ==
  /\ store = InitStore
  /\ mem = Startup(InitStore, sessions)
  /\ sessions = [p \in Partitions |-> "data"]
  /\ dialogs = NoDialogs
  /\ now = StartMs
  /\ encAvail \in BOOLEAN
  /\ last = Request("start", << >>, [ok |-> TRUE], 0)
  /\ prev = Untracked

W == [store |-> store, sessions |-> sessions, dialogs |-> dialogs]

\* the effect w of a handler on store, sessions and dialogs
SetW(w) ==
  /\ store' = w.store
  /\ sessions' = w.sessions
  /\ dialogs' = w.dialogs
  /\ w.dialogs["paranoia"] + w.dialogs["manual"] <= MaxDialogs

\* the request handled in this step and the result returned for it
Handled(op, arg, res) ==
  /\ last' = Request(op, arg, res, store.failedAttempts)
  /\ prev' = IF prev = Untracked THEN prev ELSE Summary(last)

\* a step that returns nothing to a renderer: an ipcMain.on handler, a timer,
\* a menu item, a window event
NoReply ==
  /\ last' = Request("none", << >>, [ok |-> TRUE], 0)
  /\ prev' = IF prev = Untracked THEN prev ELSE Summary(last)

\* a step that reaches lockApp or unlockApp: calls counts the calls of
\* onLockCallback and onUnlockCallback made in it
Calls(onLock, onUnlock) == [onLock |-> onLock, onUnlock |-> onUnlock]

Calling(op, arg, res, calls) ==
  /\ last' = (Request(op, arg, res, store.failedAttempts) @@ ("calls" :> calls))
  /\ prev' = IF prev = Untracked THEN prev ELSE Summary(last)

(***************************************************************************)
(* security.js: registerIPCHandlers.  Every request may come from the main *)
(* window, which exists throughout, so validateSender holds.               *)
(***************************************************************************)
SetPINReq(pin, salt) ==
  LET r == setPIN(store, pin, salt, encAvail)
  IN /\ store' = r[1]
     /\ Handled("setPIN", pin, [success |-> r[2]])
     /\ UNCHANGED <<mem, sessions, dialogs, now, encAvail>>

VerifyPINReq(pin) ==
  LET r == verifyPIN(W, pin, now, encAvail)
  IN /\ SetW(r.w)
     /\ Handled("verifyPIN", pin, r.res)
     /\ UNCHANGED <<mem, now, encAvail>>

ChangePINReq(currentPIN, newPIN, salt) ==
  LET r == changePIN(W, currentPIN, newPIN, salt, now, encAvail)
  IN /\ SetW(r.w)
     /\ Handled("changePIN", <<currentPIN, newPIN>>, r.res)
     /\ UNCHANGED <<mem, now, encAvail>>

RemovePINReq(pin) ==
  LET r == IF Len(pin) = 0
           THEN [w |-> W, res |-> [success |-> FALSE, message |-> <<"PIN is required">>]]
           ELSE removePIN(W, pin, now, encAvail)
  IN /\ SetW(r.w)
     /\ Handled("removePIN", pin, r.res)
     /\ UNCHANGED <<mem, now, encAvail>>

UnlockReq(pin) ==
  LET r == unlockApp(W, mem, pin, now, encAvail)
  IN /\ SetW(r.w)
     /\ mem' = r.m
     /\ Calling("unlock", pin, r.res, Calls(0, r.calls))
     /\ UNCHANGED <<now, encAvail>>

LockReq ==
  /\ mem' = lockApp(mem, store)
  /\ Calling("lock", << >>, [ok |-> TRUE], Calls(lockCalls(mem, store), 0))
  /\ UNCHANGED <<store, sessions, dialogs, now, encAvail>>

CheckLockoutReq ==
  LET r == checkLockout(store, now)
  IN /\ store' = r.store
     /\ Handled("checkLockout", << >>, r.res)
     /\ UNCHANGED <<mem, sessions, dialogs, now, encAvail>>

UpdateSettingsReq(settings) ==
  /\ store' = updateSecuritySettings(store, settings)
  /\ mem' = resetLockTimer(mem, store')
  /\ Handled("updateSettings", << >>, [ok |-> TRUE])
  /\ UNCHANGED <<sessions, dialogs, now, encAvail>>

SaveSettingsReq(settings) ==
  LET st1 == IF "pinEnabled" \in DOMAIN settings
             THEN IF settings["pinEnabled"] /\ ~isPINSet(store)
                  THEN store
                  ELSE [store EXCEPT !.pinEnabled = settings["pinEnabled"]]
             ELSE store
  IN /\ store' = updateSecuritySettings(st1, settings)
     /\ mem' = resetLockTimer(mem, store')
     /\ Handled("saveSettings", << >>, [ok |-> TRUE])
     /\ UNCHANGED <<sessions, dialogs, now, encAvail>>

ResetAppReq ==
  /\ SetW(resetApp(W, "manual"))
  /\ Handled("resetApp", << >>, [pending |-> TRUE])
  /\ UNCHANGED <<mem, now, encAvail>>

ActivityReq ==
  /\ mem' = resetLockTimer(mem, store)
  /\ NoReply
  /\ UNCHANGED <<store, sessions, dialogs, now, encAvail>>

\* the message box resetting whatever the answer
ResetDialogAnswer_Always(origin, choice) ==
  /\ dialogs[origin] > 0
  /\ LET w1 == [W EXCEPT !.store = resetFailedAttempts(
                            [@ EXCEPT !.pinData = Missing, !.pinEnabled = FALSE])]
         w2 == secureDeleteAllSessions(w1)
     IN /\ store' = w2.store
        /\ sessions' = w2.sessions
        /\ dialogs' = NoDialogs
        /\ mem' = Startup(w2.store, w2.sessions)
  /\ Handled("resetDialog", <<origin, choice>>, [resolved |-> (choice = "confirm")])
  /\ UNCHANGED <<now, encAvail>>

\* the answer to the message box of resetApp: "confirm" is Reset Everything.
\* app.exit(0) ends the process without before-quit; app.relaunch starts it
\* again, which closes every open dialog.
ResetDialogAnswer(origin, choice) ==
  /\ dialogs[origin] > 0
  /\ IF choice = "confirm"
     THEN LET w1 == [W EXCEPT !.store = resetFailedAttempts(
                                [@ EXCEPT !.pinData = Missing, !.pinEnabled = FALSE])]
              w2 == secureDeleteAllSessions(w1)
          IN /\ store' = w2.store
             /\ sessions' = w2.sessions
             /\ dialogs' = NoDialogs
             /\ mem' = Startup(w2.store, w2.sessions)
     ELSE /\ dialogs' = [dialogs EXCEPT ![origin] = @ - 1]
          /\ UNCHANGED <<store, sessions, mem>>
  /\ Handled("resetDialog", <<origin, choice>>, [resolved |-> (choice = "confirm")])
  /\ UNCHANGED <<now, encAvail>>

\* the callback of the setTimeout armed by resetLockTimer
LockTimerFires ==
  /\ mem.lockTimer # NoTimer
  /\ mem' = lockApp([mem EXCEPT !.lockTimer = NoTimer], store)
  /\ Calling("lockTimer", << >>, [ok |-> TRUE], Calls(lockCalls(mem, store), 0))
  /\ UNCHANGED <<store, sessions, dialogs, now, encAvail>>

(***************************************************************************)
(* main.js: IPC handlers, menu and tray.                                   *)
(***************************************************************************)
\* menu accelerators, tray menu and 'switch-account'
SwitchAccountReq(accountId) ==
  /\ mem' = switchAccount(mem, accountId)
  /\ NoReply
  /\ UNCHANGED <<store, sessions, dialogs, now, encAvail>>

PinSetupCompleteReq ==
  /\ mem' = hideLockScreen(mem)
  /\ NoReply
  /\ UNCHANGED <<store, sessions, dialogs, now, encAvail>>

SkipPINSetupReq ==
  /\ mem' = hideLockScreen(mem)
  /\ NoReply
  /\ UNCHANGED <<store, sessions, dialogs, now, encAvail>>

LockNowReq ==
  /\ mem' = IF isPINEnabled(store) THEN lockApp(mem, store) ELSE mem
  /\ Calling("lockNow", << >>, [ok |-> TRUE],
             Calls(IF isPINEnabled(store) THEN lockCalls(mem, store) ELSE 0, 0))
  /\ UNCHANGED <<store, sessions, dialogs, now, encAvail>>

SetupPINReq ==
  /\ mem' = showPINSetupScreen(mem)
  /\ NoReply
  /\ UNCHANGED <<store, sessions, dialogs, now, encAvail>>

\* the user closes the setup window (closable: true): its 'closed' handler
SetupWindowClosed ==
  /\ mem.lockWindow = "setup"
  /\ mem' = [mem EXCEPT !.lockWindow = "none", !.isShowingLockScreen = FALSE,
                        !.ui = UiInit]
  /\ NoReply
  /\ UNCHANGED <<store, sessions, dialogs, now, encAvail>>

\* the powerMonitor events 'suspend' and 'lock-screen': the listener runs
\* when initAutoLock has registered it
SuspendSignal ==
  LET locks == mem.suspendListener /\ isPINEnabled(store)
  IN /\ mem' = IF locks THEN lockApp(mem, store) ELSE mem
     /\ Calling("suspend", << >>, [ok |-> TRUE],
                Calls(IF locks THEN lockCalls(mem, store) ELSE 0, 0))
     /\ UNCHANGED <<store, sessions, dialogs, now, encAvail>>

LockScreenSignal ==
  LET locks == mem.lockScreenListener /\ isPINEnabled(store)
  IN /\ mem' = IF locks THEN lockApp(mem, store) ELSE mem
     /\ Calling("lock-screen", << >>, [ok |-> TRUE],
                Calls(IF locks THEN lockCalls(mem, store) ELSE 0, 0))
     /\ UNCHANGED <<store, sessions, dialogs, now, encAvail>>

\* what a change of the files of a partition from outside does to them
Modify(content) ==
  IF content = "data" THEN "modified"
  ELSE IF content = "modified" THEN "data"
  ELSE content

\* a restart that loses the failed attempts
Restart_ForgetsAttempts(modified) ==
  /\ store' = resetFailedAttempts(saveSessionHashes(store, sessions))
  /\ sessions' = [p \in Partitions |->
                    IF p \in modified THEN Modify(sessions[p]) ELSE sessions[p]]
  /\ mem' = Startup(store', sessions')
  /\ dialogs' = NoDialogs
  /\ last' = Request("start", << >>, [ok |-> TRUE], 0)
  /\ prev' = IF prev = Untracked THEN prev ELSE <<"other">>
  /\ UNCHANGED <<now, encAvail>>

\* quit (before-quit saves the snapshot), the files of the partitions in
\* modified change while the app is closed, and the app starts again
Restart(modified) ==
  /\ store' = saveSessionHashes(store, sessions)
  /\ sessions' = [p \in Partitions |->
                    IF p \in modified THEN Modify(sessions[p]) ELSE sessions[p]]
  /\ mem' = Startup(store', sessions')
  /\ dialogs' = NoDialogs
  /\ last' = Request("start", << >>, [ok |-> TRUE], 0)
  /\ prev' = IF prev = Untracked THEN prev ELSE <<"other">>
  /\ UNCHANGED <<now, encAvail>>

\* quit, and the next start is in a session in which the secret store of
\* the operating system (keychain, keyring) is available or not:
\* safeStorage.isEncryptionAvailable() returns avail from then on
RestartWithStorage(avail) ==
  /\ avail # encAvail
  /\ encAvail' = avail
  /\ store' = saveSessionHashes(store, sessions)
  /\ mem' = Startup(store', sessions)
  /\ dialogs' = NoDialogs
  /\ last' = Request("start", << >>, [ok |-> TRUE], 0)
  /\ prev' = IF prev = Untracked THEN prev ELSE <<"other">>
  /\ UNCHANGED <<sessions, now>>

\* a call of secureDeleteFile on the file f of the partition
SecureDeleteFileCall(f, fault, fallbackFails) ==
  LET r == secureDeleteFile(sessions[f], fault, fallbackFails)
  IN /\ sessions' = [sessions EXCEPT ![f] = r.file]
     /\ last' = Request("secureDeleteFile", <<f, fault, fallbackFails>>,
                        [ops |-> r.ops, returned |-> r.returned,
                         thrown |-> r.thrown], 0)
     /\ UNCHANGED <<store, mem, dialogs, now, encAvail, prev>>

\* a call of secureDeleteSession on the partition
SecureDeleteSessionCall(faults, fallbackFails, rmFails) ==
  LET r == secureDeleteSession(sessions, faults, fallbackFails, rmFails)
  IN /\ sessions' = r.files
     /\ last' = Request("secureDeleteSession", <<faults, fallbackFails, rmFails>>,
                        [returned |-> r.returned, thrown |-> r.thrown], 0)
     /\ UNCHANGED <<store, mem, dialogs, now, encAvail, prev>>

(***************************************************************************)
(* Requests by sender.  The senders are the webContents of the main        *)
(* window ("main"), of the lock or setup window ("lock", while it exists)  *)
(* and of a WhatsApp BrowserView ("view"), which is none of the windows    *)
(* getWindows returns.  The settings window is not modelled.               *)
(***************************************************************************)
Senders == {"main", "lock", "view"}

\* the webContents that exist and can send
SenderExists(sender, m) ==
  sender = "lock" => m.lockWindow # "none"

validateSender(sender, m) ==
  \/ sender = "main"
  \/ sender = "lock" /\ m.lockWindow # "none"

\* the channels whose handler calls validateSender, and the others of
\* registerIPCHandlers and main.js that change state
ValidatedChannels ==
  {"security:setPIN", "security:changePIN", "security:removePIN",
   "security:unlock", "security:lock", "security:updateSettings",
   "security:saveSettings", "security:resetApp"}
OpenChannels ==
  {"security:verifyPIN", "security:checkLockout", "security:activity",
   "security:pinSetupComplete", "security:skipPINSetup", "security:lockNow",
   "security:setupPIN"}

\* what the handlers of ValidatedChannels return to a sender they reject
Unauthorized(channel) ==
  IF channel \in {"security:setPIN", "security:changePIN",
                  "security:removePIN", "security:unlock"}
  THEN [success |-> FALSE, message |-> <<"Unauthorized">>]
  ELSE [ok |-> FALSE]

\* the handlers of OpenChannels, which never look at the sender:
\* returns [w, m, res]
OpenHandler(channel, pin) ==
  IF channel = "security:verifyPIN"
  THEN LET r == verifyPIN(W, pin, now, encAvail)
       IN [w |-> r.w, m |-> mem, res |-> r.res]
  ELSE IF channel = "security:checkLockout"
  THEN LET r == checkLockout(store, now)
       IN [w |-> [W EXCEPT !.store = r.store], m |-> mem, res |-> r.res]
  ELSE IF channel = "security:activity"
  THEN [w |-> W, m |-> resetLockTimer(mem, store), res |-> [ok |-> TRUE]]
  ELSE IF channel \in {"security:pinSetupComplete", "security:skipPINSetup"}
  THEN [w |-> W, m |-> hideLockScreen(mem), res |-> [ok |-> TRUE]]
  ELSE IF channel = "security:lockNow"
  THEN [w |-> W,
        m |-> IF isPINEnabled(store) THEN lockApp(mem, store) ELSE mem,
        res |-> [ok |-> TRUE]]
  ELSE [w |-> W, m |-> showPINSetupScreen(mem), res |-> [ok |-> TRUE]]

\* a request a sender the handlers of ValidatedChannels reject sends on
\* channel: those handlers return at once, the others run as for any sender
RejectedSenderRequest(sender, channel, pin) ==
  /\ SenderExists(sender, mem)
  /\ ~validateSender(sender, mem)
  /\ LET h == IF channel \in ValidatedChannels
              THEN [w |-> W, m |-> mem, res |-> Unauthorized(channel)]
              ELSE OpenHandler(channel, pin)
     IN /\ SetW(h.w)
        /\ mem' = h.m
        /\ last' = (Request(channel, pin, h.res, store.failedAttempts)
                      @@ ("sender" :> sender))
  /\ prev' = IF prev = Untracked THEN prev ELSE <<"other">>
  /\ UNCHANGED <<now, encAvail>>

\* the timeouts of lockApp that are pending
PendingTimers(m) == m.leakedTimers + (IF m.lockTimer # NoTimer THEN 1 ELSE 0)

\* macOS: the main window is closed with minimizeToTray off while no other
\* window exists, and the application is activated again: 'activate' runs
\* createWindow and initializeSecurity a second time in the same process.
\* pending: the timeouts pending when it does.
Activate ==
  /\ mem.lockWindow = "none"
  /\ LET created == switchAccount(mem, "personal")
         integrity == verifySessionIntegrity(store, sessions)
         warned == [created EXCEPT !.integrityWarning =
                      @ \/ (~integrity.verified /\ ~integrity.firstRun)]
     IN mem' = initAutoLock(warned, store)
  /\ last' = (Request("activate", << >>, [ok |-> TRUE], 0)
                @@ ("pending" :> PendingTimers(mem)))
  /\ prev' = IF prev = Untracked THEN prev ELSE <<"other">>
  /\ UNCHANGED <<store, sessions, dialogs, now, encAvail>>

\* the message box deleting the sessions whatever the answer
IntegrityWarningAnswer_Always(choice) ==
  /\ mem.integrityWarning
  /\ LET w1 == secureDeleteAllSessions(W)
     IN /\ store' = w1.store
        /\ sessions' = w1.sessions
        /\ dialogs' = NoDialogs
        /\ mem' = Startup(w1.store, w1.sessions)
  /\ Handled("integrityDialog", <<choice>>, [ok |-> TRUE])
  /\ UNCHANGED <<now, encAvail>>

\* the answer to the message box of showIntegrityWarning: "logout" is Logout
\* All Sessions, which deletes the sessions and relaunches
IntegrityWarningAnswer(choice) ==
  /\ mem.integrityWarning
  /\ IF choice = "logout"
     THEN LET w1 == secureDeleteAllSessions(W)
          IN /\ store' = w1.store
             /\ sessions' = w1.sessions
             /\ dialogs' = NoDialogs
             /\ mem' = Startup(w1.store, w1.sessions)
     ELSE /\ mem' = [mem EXCEPT !.integrityWarning = FALSE]
          /\ UNCHANGED <<store, sessions, dialogs>>
  /\ Handled("integrityDialog", <<choice>>, [ok |-> TRUE])
  /\ UNCHANGED <<now, encAvail>>

(***************************************************************************)
(* lock.js: the renderer of the lock window.                               *)
(***************************************************************************)
handleLockout(ui, hasRemainingTime, remainingTime, t) ==
  [ui EXCEPT !.isLocked = TRUE,
             !.lockoutEndTime = IF hasRemainingTime THEN <<t + remainingTime>>
                                ELSE NoTimestamp,
             !.lockoutEndNaN = ~hasRemainingTime,
             !.numpadDisabled = TRUE]

disableInput(ui, duration, t) ==
  [ui EXCEPT !.numpadDisabled = TRUE, !.inputTimers = @ \cup {t + duration}]

\* submitPIN after the reply to security.unlock has arrived
submitPIN(ui, result, t) ==
  IF result.success THEN ui
  ELSE IF "locked" \in DOMAIN result /\ result.locked
  THEN IF "remainingTime" \in DOMAIN result
       THEN handleLockout(ui, TRUE, result.remainingTime, t)
       ELSE handleLockout(ui, FALSE, 0, t)
  ELSE IF "deleted" \in DOMAIN result THEN ui
  ELSE IF "delay" \in DOMAIN result /\ result.delay > 0
  THEN disableInput(ui, result.delay, t)
  ELSE ui

addDigit(ui, digit) ==
  IF ui.isLocked \/ ui.isSubmitting \/ Len(ui.currentPIN) >= 8
  THEN ui
  ELSE LET pin == Append(ui.currentPIN, digit)
       IN [ui EXCEPT !.currentPIN = pin,
                     !.submitTimers = IF Len(pin) >= 6 THEN @ + 1 ELSE @]

clearPIN(ui) == [ui EXCEPT !.currentPIN = << >>]

\* submitPIN up to its await: the request carries currentPIN as it is now
submitPINCall(ui) ==
  IF ui.isLocked \/ ui.isSubmitting \/ Len(ui.currentPIN) < 4
  THEN ui
  ELSE [ui EXCEPT !.isSubmitting = TRUE, !.inFlight = <<ui.currentPIN>>]

\* the callback of the timeout of addDigit
autoSubmit(ui) ==
  IF Len(ui.currentPIN) >= 4 /\ ~ui.isSubmitting
  THEN submitPINCall(ui)
  ELSE ui

\* submitPIN from the reply on: showPINError arms the timeout of clearPIN
\* when the reply is a plain failure, and finally resets isSubmitting
submitPINReply(ui, result, t) ==
  LET plain == /\ ~result.success
               /\ ~("locked" \in DOMAIN result /\ result.locked)
               /\ ~("deleted" \in DOMAIN result)
  IN [submitPIN(ui, result, t) EXCEPT
        !.isSubmitting = FALSE,
        !.inFlight = << >>,
        !.clearTimers = IF plain THEN @ + 1 ELSE @]

\* the PIN typed is sent with security.unlock and the reply handled
Submit(pin) ==
  LET r == unlockApp(W, mem, pin, now, encAvail)
  IN /\ SetW(r.w)
     /\ mem' = IF r.res.success THEN r.m
               ELSE [r.m EXCEPT !.ui = submitPIN(@, r.res, now)]
     /\ Calling("unlock", pin, r.res, Calls(0, r.calls))
     /\ UNCHANGED <<now, encAvail>>

\* init of the lock window: the reply to security:checkLockout arrives
LockScreenInit ==
  /\ mem.lockWindow = "lock"
  /\ ~mem.ui.initialized
  /\ LET lockoutStatus == checkLockout(store, now)
         ui == [mem.ui EXCEPT !.initialized = TRUE]
     IN /\ store' = lockoutStatus.store
        /\ mem' = [mem EXCEPT !.ui =
                     IF lockoutStatus.res.locked
                     THEN handleLockout(ui, TRUE, lockoutStatus.res.remainingTime, now)
                     ELSE ui]
        /\ Handled("init", << >>, lockoutStatus.res)
  /\ UNCHANGED <<sessions, dialogs, now, encAvail>>

\* the PIN the store holds is pin
IsConfigured(pin) ==
  /\ isPINSet(store)
  /\ store.pinData.hash = hashPIN(pin, store.pinData.salt)

\* the user types the next digit of the configured PIN on the keyboard
\* (the keydown listener tests isLocked only), while no request is awaited
TypeNextDigit(pin) ==
  /\ mem.lockWindow = "lock"
  /\ ~mem.ui.isLocked
  /\ ~mem.ui.isSubmitting
  /\ mem.ui.submitTimers < MaxAutoSubmit
  /\ IsConfigured(pin)
  /\ Len(mem.ui.currentPIN) < Len(pin)
  /\ SubSeq(pin, 1, Len(mem.ui.currentPIN)) = mem.ui.currentPIN
  /\ mem' = [mem EXCEPT !.ui = addDigit(@, pin[Len(mem.ui.currentPIN) + 1])]
  /\ NoReply
  /\ UNCHANGED <<store, sessions, dialogs, now, encAvail>>

\* the user presses Enter once the whole configured PIN is typed
PressEnter(pin) ==
  /\ mem.lockWindow = "lock"
  /\ ~mem.ui.isLocked
  /\ IsConfigured(pin)
  /\ mem.ui.currentPIN = pin
  /\ mem' = [mem EXCEPT !.ui = submitPINCall(@)]
  /\ NoReply
  /\ UNCHANGED <<store, sessions, dialogs, now, encAvail>>

\* a timeout armed by addDigit ends, 300 ms after its digit
AutoSubmitFires ==
  /\ mem.lockWindow = "lock"
  /\ mem.ui.submitTimers > 0
  /\ mem' = [mem EXCEPT !.ui = autoSubmit([@ EXCEPT !.submitTimers = @ - 1])]
  /\ NoReply
  /\ UNCHANGED <<store, sessions, dialogs, now, encAvail>>

\* the main process handles the security.unlock request awaited and
\* submitPIN resumes with its reply
UnlockReply ==
  /\ mem.lockWindow = "lock"
  /\ mem.ui.inFlight # << >>
  /\ LET pin == mem.ui.inFlight[1]
         r == unlockApp(W, mem, pin, now, encAvail)
     IN /\ SetW(r.w)
        /\ mem' = IF r.res.success THEN r.m
                  ELSE [r.m EXCEPT !.ui = submitPINReply(@, r.res, now)]
        /\ Calling("unlock", pin, r.res, Calls(0, r.calls))
  /\ UNCHANGED <<now, encAvail>>

\* the timeout of showPINError ends, 500 ms after the failure
ShowPINErrorEnds ==
  /\ mem.lockWindow = "lock"
  /\ mem.ui.clearTimers > 0
  /\ mem' = [mem EXCEPT !.ui = clearPIN([@ EXCEPT !.clearTimers = @ - 1])]
  /\ NoReply
  /\ UNCHANGED <<store, sessions, dialogs, now, encAvail>>

\* digits and submit on the numpad: the buttons must be enabled
NumpadSubmit(pin) ==
  /\ mem.lockWindow = "lock"
  /\ ~mem.ui.numpadDisabled
  /\ ~mem.ui.isLocked
  /\ Len(pin) >= 4 /\ Len(pin) <= 8
  /\ Submit(pin)

\* digits and Enter on the keyboard: the keydown listener tests isLocked only
KeyboardSubmit(pin) ==
  /\ mem.lockWindow = "lock"
  /\ ~mem.ui.isLocked
  /\ Len(pin) >= 4 /\ Len(pin) <= 8
  /\ Submit(pin)

\* a timeout of disableInput ends
InputTimerFires(t) ==
  /\ t \in mem.ui.inputTimers
  /\ now >= t
  /\ mem' = [mem EXCEPT !.ui.numpadDisabled = FALSE,
                        !.ui.inputTimers = @ \ {t}]
  /\ NoReply
  /\ UNCHANGED <<store, sessions, dialogs, now, encAvail>>

\* updateLockoutCountdown finds the lockout over
LockoutCountdownEnds ==
  /\ mem.ui.isLocked
  /\ ~mem.ui.lockoutEndNaN
  /\ mem.ui.lockoutEndTime[1] - now <= 0
  /\ mem' = [mem EXCEPT !.ui.isLocked = FALSE,
                        !.ui.numpadDisabled = FALSE,
                        !.ui.lockoutEndTime = NoTimestamp]
  /\ NoReply
  /\ UNCHANGED <<store, sessions, dialogs, now, encAvail>>

\* time passes
Tick ==
  /\ now + TickMs <= StartMs + MaxTicks * TickMs
  /\ now' = now + TickMs
  /\ UNCHANGED <<store, mem, sessions, dialogs, encAvail, last, prev>>

(***************************************************************************)
(* Spec: the whole application from its first start, with the clock        *)
(* standing still and at most MaxFailedHost failed attempts counted.       *)
(***************************************************************************)
Counted(n) == store'.failedAttempts <= n

HostVerifyPINReq(pin) == VerifyPINReq(pin) /\ Counted(MaxFailedHost)

HostChangePINReq(currentPIN, newPIN, salt) ==
  ChangePINReq(currentPIN, newPIN, salt) /\ Counted(MaxFailedHost)

HostRemovePINReq(pin) == RemovePINReq(pin) /\ Counted(MaxFailedHost)

HostUnlockReq(pin) == UnlockReq(pin) /\ Counted(MaxFailedHost)

Next ==
  \/ \E pin \in HostPins, salt \in Salts : SetPINReq(pin, salt)
  \/ \E pin \in HostPins : HostVerifyPINReq(pin)
  \/ \E currentPIN \in HostPins, newPIN \in HostPins, salt \in Salts :
        HostChangePINReq(currentPIN, newPIN, salt)
  \/ \E pin \in HostPins : HostRemovePINReq(pin)
  \/ \E pin \in HostPins : HostUnlockReq(pin)
  \/ LockReq
  \/ CheckLockoutReq
  \/ \E settings \in SettingsInputs : UpdateSettingsReq(settings)
  \/ \E settings \in SettingsInputs : SaveSettingsReq(settings)
  \/ ResetAppReq
  \/ ActivityReq
  \/ \E origin \in DOMAIN dialogs, choice \in {"confirm", "cancel"} :
        ResetDialogAnswer(origin, choice)
  \/ LockTimerFires
  \/ \E accountId \in Accounts : SwitchAccountReq(accountId)
  \/ PinSetupCompleteReq
  \/ SkipPINSetupReq
  \/ LockNowReq
  \/ SetupPINReq
  \/ SetupWindowClosed
  \/ Restart({})

Spec == Init /\ [][Next]_vars

(***************************************************************************)
(* SpecPolicy: the PIN and the failed-attempt policy under a fixed         *)
(* configuration saved by an earlier run, with the clock running.          *)
(***************************************************************************)
\* the values of security.maxAttempts the configurations carry
PolicyMaxAttempts == {10, 11}
\* the PINs the requests of SpecPolicy carry
PolicyPins == {PinA, PinLong, PinShort}

InitPolicy ==
  /\ \E n \in PolicyMaxAttempts, b \in BOOLEAN :
        store = [InitStore EXCEPT !.maxAttempts = n, !.deleteOnMaxAttempts = b]
  /\ mem = Startup(store, sessions)
  /\ sessions = [p \in Partitions |-> "data"]
  /\ dialogs = NoDialogs
  /\ now = StartMs
  /\ encAvail \in BOOLEAN
  /\ last = Request("start", << >>, [ok |-> TRUE], 0)
  /\ prev = <<"other">>

NextPolicy ==
  \/ \E pin \in PolicyPins, salt \in Salts : SetPINReq(pin, salt)
  \/ \E pin \in PolicyPins : VerifyPINReq(pin)
  \/ \E pin \in PolicyPins : UnlockReq(pin)
  \/ CheckLockoutReq
  \/ LockNowReq
  \/ \E origin \in DOMAIN dialogs, choice \in {"confirm", "cancel"} :
        ResetDialogAnswer(origin, choice)
  \/ Tick

SpecPolicy == InitPolicy /\ [][NextPolicy]_vars

(***************************************************************************)
(* SpecLock: the lock controller from the first start: lock requests,      *)
(* timer, power events, settings of the power events, the setup window and *)
(* starts after a change of the session files.  The clock stands still.    *)
(***************************************************************************)
\* the PINs the setPIN requests of SpecLock carry
LockSetPins == {PinA, PinAlpha, PinNine, PinShort}
\* the PINs its unlock requests carry
LockUnlockPins == {PinA, PinShort}
\* the settings objects its saveSettings requests carry
LockSettingsInputs ==
  {("lockOnSuspend" :> b) : b \in BOOLEAN}
    \cup {("lockOnScreenLock" :> b) : b \in BOOLEAN}
\* the partitions whose files change while the app is closed
ModifiedInputs == {{}, {"persist:whatsapp-personal"}}

NextLock ==
  \/ \E pin \in LockSetPins, salt \in Salts : SetPINReq(pin, salt)
  \/ \E pin \in LockUnlockPins : HostUnlockReq(pin)
  \/ LockReq
  \/ LockNowReq
  \/ LockTimerFires
  \/ ActivityReq
  \/ SuspendSignal
  \/ LockScreenSignal
  \/ \E settings \in LockSettingsInputs : SaveSettingsReq(settings)
  \/ SetupPINReq
  \/ SetupWindowClosed
  \/ \E modified \in ModifiedInputs : Restart(modified)
  \/ Activate
  \/ \E choice \in {"ok", "logout"} : IntegrityWarningAnswer(choice)

SpecLock == Init /\ [][NextLock]_vars

(***************************************************************************)
(* SpecLockScreen: PINs entered on the lock screen, by numpad and by       *)
(* keyboard, with the default settings and the clock running.              *)
(***************************************************************************)
\* the PINs typed on the lock screen: the one set and another
ScreenPins == {PinA, PinLong}

NextLockScreen ==
  \/ \E salt \in Salts : SetPINReq(PinA, salt)
  \/ LockNowReq
  \/ \E pin \in ScreenPins : NumpadSubmit(pin)
  \/ \E pin \in ScreenPins : KeyboardSubmit(pin)
  \/ \E t \in mem.ui.inputTimers : InputTimerFires(t)
  \/ LockoutCountdownEnds
  \/ Restart({})
  \/ Tick

SpecLockScreen == Init /\ [][NextLockScreen]_vars

(***************************************************************************)
(* SpecConfig: the failed-attempt policy under the configurations the      *)
(* settings page saves (maxAttempts, lockoutDuration), changed while the   *)
(* application runs, with the clock running.  Paranoia mode is off.        *)
(***************************************************************************)
\* the values of security.maxAttempts and security.lockoutDuration (minutes)
\* the configurations and the settings requests carry
ConfigMaxAttempts == {3, 5}
ConfigLockoutDurations == {15, 30}
\* the PINs the requests of SpecConfig carry: the one set and another
ConfigPins == {PinA, PinLong}
\* the settings objects its updateSettings requests carry
ConfigSettingsInputs ==
  {("maxAttempts" :> n) : n \in ConfigMaxAttempts}
    \cup {("lockoutDuration" :> d) : d \in ConfigLockoutDurations}

InitConfig ==
  /\ \E n \in ConfigMaxAttempts, d \in ConfigLockoutDurations :
        store = [InitStore EXCEPT !.maxAttempts = n, !.lockoutDuration = d]
  /\ mem = Startup(store, sessions)
  /\ sessions = [p \in Partitions |-> "data"]
  /\ dialogs = NoDialogs
  /\ now = StartMs
  /\ encAvail \in BOOLEAN
  /\ last = Request("start", << >>, [ok |-> TRUE], 0)
  /\ prev = Untracked

NextConfig ==
  \/ \E salt \in Salts : SetPINReq(PinA, salt)
  \/ \E pin \in ConfigPins : VerifyPINReq(pin)
  \/ \E pin \in ConfigPins : UnlockReq(pin)
  \/ CheckLockoutReq
  \/ LockNowReq
  \/ \E settings \in ConfigSettingsInputs : UpdateSettingsReq(settings)
  \/ Tick

SpecConfig == InitConfig /\ [][NextConfig]_vars

(***************************************************************************)
(* SpecLockScreenLive: SpecLockScreen with the clock advancing and the     *)
(* setInterval callback of the countdown (every second) running whenever   *)
(* it can.                                                                 *)
(***************************************************************************)
SpecLockScreenLive ==
  /\ Init
  /\ [][NextLockScreen]_vars
  /\ WF_vars(Tick)
  /\ WF_vars(LockoutCountdownEnds)

(***************************************************************************)
(* SpecStorage: the PIN record across starts in sessions with and without  *)
(* the secret store of the operating system.  The clock stands still.      *)
(***************************************************************************)
\* the PINs the requests of SpecStorage carry: the one set and another
StoragePins == {PinA, PinLong}

NextStorage ==
  \/ \E pin \in StoragePins, salt \in Salts : SetPINReq(pin, salt)
  \/ \E pin \in StoragePins : VerifyPINReq(pin)
  \/ \E pin \in StoragePins : UnlockReq(pin)
  \/ \E pin \in StoragePins : RemovePINReq(pin)
  \/ LockNowReq
  \/ Restart({})
  \/ \E avail \in BOOLEAN : RestartWithStorage(avail)

SpecStorage == Init /\ [][NextStorage]_vars

(***************************************************************************)
(* SpecWipe: the three triggers of secureDeleteAllSessions (paranoia mode, *)
(* the confirmed reset, Logout All Sessions of the integrity warning) and  *)
(* the snapshot of the session files, with paranoia mode configured by an  *)
(* earlier run and the clock standing still.                               *)
(***************************************************************************)
\* security.maxAttempts of that configuration
WipeMaxAttempts == 3
\* the PINs the requests of SpecWipe carry: the one set and another
WipePins == {PinA, PinLong}

InitWipe ==
  /\ store = [InitStore EXCEPT !.maxAttempts = WipeMaxAttempts,
                               !.deleteOnMaxAttempts = TRUE]
  /\ mem = Startup(store, sessions)
  /\ sessions = [p \in Partitions |-> "data"]
  /\ dialogs = NoDialogs
  /\ now = StartMs
  /\ encAvail \in BOOLEAN
  /\ last = Request("start", << >>, [ok |-> TRUE], 0)
  /\ prev = Untracked

NextWipe ==
  \/ \E salt \in Salts : SetPINReq(PinA, salt)
  \/ \E pin \in WipePins : UnlockReq(pin)
  \/ LockNowReq
  \/ ResetAppReq
  \/ \E origin \in DOMAIN dialogs, choice \in {"confirm", "cancel"} :
        ResetDialogAnswer(origin, choice)
  \/ \E modified \in ModifiedInputs : Restart(modified)
  \/ \E choice \in {"ok", "logout"} : IntegrityWarningAnswer(choice)

SpecWipe == InitWipe /\ [][NextWipe]_vars

(***************************************************************************)
(* SpecErase: secureDeleteFile and secureDeleteSession on the files of one *)
(* partition, with every failure of fs.  Here sessions holds the files of  *)
(* the partition, by name.                                                 *)
(***************************************************************************)
Files == {"Cookies", "Local Storage"}
FileSizes == 0..MaxFileSize
\* the failures secureDeleteSession meets in a file
SessionFaults == {"none", "write1", "unlinkSync"}

InitErase ==
  /\ sessions \in [Files -> [exists : {TRUE}, size : FileSizes, content : {"data"}]]
  /\ store = InitStore
  /\ mem = Startup(InitStore, [p \in Partitions |-> "data"])
  /\ dialogs = NoDialogs
  /\ now = StartMs
  /\ encAvail = TRUE
  /\ last = Request("start", << >>, [ok |-> TRUE], 0)
  /\ prev = Untracked

NextErase ==
  \/ \E f \in Files, fault \in Faults, fallbackFails \in BOOLEAN :
        SecureDeleteFileCall(f, fault, fallbackFails)
  \/ \E faults \in [Files -> SessionFaults], fallbackFails \in BOOLEAN,
        rmFails \in BOOLEAN :
        SecureDeleteSessionCall(faults, fallbackFails, rmFails)

SpecErase == InitErase /\ [][NextErase]_vars

(***************************************************************************)
(* SpecSender: requests of the main window and requests of a sender that   *)
(* is none of the windows of the application, on every channel.  The clock *)
(* stands still.                                                           *)
(***************************************************************************)
\* the PINs the requests of SpecSender carry: the one set and another
SenderPins == {PinA, PinLong}

NextSender ==
  \/ \E salt \in Salts : SetPINReq(PinA, salt)
  \/ LockNowReq
  \/ \E pin \in SenderPins : UnlockReq(pin)
  \/ \E sender \in Senders, channel \in ValidatedChannels \cup OpenChannels,
        pin \in SenderPins :
        RejectedSenderRequest(sender, channel, pin)

SpecSender == Init /\ [][NextSender]_vars

(***************************************************************************)
(* SpecChannels: the four requests that verify a PIN (unlock, verifyPIN,   *)
(* changePIN, removePIN) in any order, with maxAttempts 3 configured by an *)
(* earlier run, paranoia mode on or off, and the clock running.            *)
(***************************************************************************)
\* the PINs the requests of SpecChannels carry: the one set and another
ChannelPins == {PinA, PinLong}

InitChannels ==
  /\ \E b \in BOOLEAN :
        store = [InitStore EXCEPT !.maxAttempts = WipeMaxAttempts,
                                  !.deleteOnMaxAttempts = b]
  /\ mem = Startup(store, sessions)
  /\ sessions = [p \in Partitions |-> "data"]
  /\ dialogs = NoDialogs
  /\ now = StartMs
  /\ encAvail \in BOOLEAN
  /\ last = Request("start", << >>, [ok |-> TRUE], 0)
  /\ prev = Untracked

NextChannels ==
  \/ \E salt \in Salts : SetPINReq(PinA, salt)
  \/ \E pin \in ChannelPins : VerifyPINReq(pin)
  \/ \E pin \in ChannelPins : UnlockReq(pin)
  \/ \E currentPIN \in ChannelPins, salt \in Salts :
        ChangePINReq(currentPIN, PinA, salt)
  \/ \E pin \in ChannelPins : RemovePINReq(pin)
  \/ LockNowReq
  \/ \E origin \in DOMAIN dialogs, choice \in {"confirm", "cancel"} :
        ResetDialogAnswer(origin, choice)
  \/ Tick

SpecChannels == InitChannels /\ [][NextChannels]_vars

(***************************************************************************)
(* SpecRestart: failed attempts on the lock screen, restarts of the        *)
(* application and the start of the lock window (init), with the default   *)
(* settings and the clock running.                                         *)
(***************************************************************************)
\* the PINs typed on the lock screen: the one set and another
RestartPins == {PinA, PinLong}

NextRestart ==
  \/ \E salt \in Salts : SetPINReq(PinA, salt)
  \/ LockNowReq
  \/ \E pin \in RestartPins : KeyboardSubmit(pin)
  \/ LockoutCountdownEnds
  \/ LockScreenInit
  \/ Restart({})
  \/ Tick

SpecRestart == Init /\ [][NextRestart]_vars

(***************************************************************************)
(* SpecTyping: the configured PIN, of any length from 4 to 8, typed on the *)
(* lock screen one digit at a time with the timeouts of the lock window    *)
(* ending at any moment between the keystrokes, under the default          *)
(* settings and with the clock standing still.                             *)
(***************************************************************************)
\* the PINs configured: one of each length
TypingPins == {SubSeq(PinLong, 1, n) : n \in 4..8}

InitTyping ==
  /\ encAvail \in BOOLEAN
  /\ \E pin \in TypingPins, salt \in Salts :
        store = setPIN(InitStore, pin, salt, encAvail)[1]
  /\ mem = Startup(store, sessions)
  /\ sessions = [p \in Partitions |-> "data"]
  /\ dialogs = NoDialogs
  /\ now = StartMs
  /\ last = Request("start", << >>, [ok |-> TRUE], 0)
  /\ prev = Untracked

NextTyping ==
  \/ \E pin \in TypingPins : TypeNextDigit(pin)
  \/ \E pin \in TypingPins : PressEnter(pin)
  \/ AutoSubmitFires
  \/ UnlockReply
  \/ ShowPINErrorEnds
  \/ LockNowReq

SpecTyping == InitTyping /\ [][NextTyping]_vars

(***************************************************************************)
(* Properties.                                                             *)
(***************************************************************************)
AllPartitions(content) == \A p \in Partitions : sessions[p] = content

\* the stored record is the record of pin
IsCurrentPIN(st, pin) ==
  /\ st.pinData # Missing
  /\ hashPIN(pin, st.pinData.salt) = st.pinData.hash

\* a result of handleFailedAttempt: the wrong PIN was counted
Counts(r) == "attempts" \in DOMAIN r.res
Wiped(r) == "deleted" \in DOMAIN r.res

\* C1: while the lock screen is shown no WhatsApp BrowserView is attached
\* to the main window, whatever requests arrive in the meantime.
C1_NoViewWhileLockScreen ==
  mem.isShowingLockScreen => mem.attached = NoView

\* C2: with the PIN enabled and the sessions intact, the lock screen is
\* hidden and a view attached again only by an unlock request that
\* succeeds.
C2_NoBackdoor ==
  [][ ( /\ isPINEnabled(store)
        /\ mem.isShowingLockScreen
        /\ ~mem'.isShowingLockScreen
        /\ mem'.attached # NoView
        /\ \A p \in Partitions : sessions'[p] = "data" )
      => (last'.op = "unlock" /\ last'.res.success) ]_vars

\* C3: isPINEnabled goes from true to false only in removePIN with the
\* current PIN or in a confirmed reset.
C3_NoUnauthenticatedDisable ==
  [][ (isPINEnabled(store) /\ ~isPINEnabled(store'))
      => \/ /\ last'.op = "removePIN"
            /\ last'.res.success
            /\ IsCurrentPIN(store, last'.arg)
         \/ /\ last'.op = "resetDialog"
            /\ last'.res.resolved ]_vars

\* C4: setPIN accepts every valid PIN, and an unlock with that PIN right
\* after it succeeds and leaves the application unlocked, whatever the
\* state before (a lockout included).
C4_SetThenUnlock ==
  [][ /\ (last'.op = "setPIN" /\ now' = now /\ ValidPIN(last'.arg))
         => last'.res.success
      /\ ( /\ last.op = "setPIN"
           /\ ValidPIN(last.arg)
           /\ last'.op = "unlock"
           /\ last'.arg = last.arg )
         => /\ last'.res.success
            /\ ~mem'.isLocked
            /\ ~mem'.isShowingLockScreen
            /\ mem'.attached # NoView ]_vars

\* the unlock that follows a setPIN of the same PIN, which arrived during a
\* lockout (the counter stood at maxAttempts), has succeeded
C4_Witness ==
  /\ last.op = "unlock"
  /\ last.res.success
  /\ prev[1] = "setPIN"
  /\ prev[2] = last.arg
  /\ prev[3] >= store.maxAttempts
  /\ Len(last.arg) = 8

\* C5: an unlock with a valid PIN other than the one just set is rejected,
\* changes nothing in the lock state, adds exactly 1 to failedAttempts and
\* sets lastFailedAttempt to the current time.
C5_WrongPinCountsOnce ==
  [][ ( /\ last.op = "setPIN"
        /\ last.res.success
        /\ ValidPIN(last.arg)
        /\ last'.op = "unlock"
        /\ ValidPIN(last'.arg)
        /\ last'.arg # last.arg )
      => /\ ~last'.res.success
         /\ mem' = mem
         /\ store'.failedAttempts = store.failedAttempts + 1
         /\ store'.lastFailedAttempt = <<now>> ]_vars

\* a locked application has rejected the unlock that followed a setPIN of
\* another PIN
C5_Witness ==
  /\ last.op = "unlock"
  /\ ~last.res.success
  /\ ValidPIN(last.arg)
  /\ prev[1] = "setPIN"
  /\ ValidPIN(prev[2])
  /\ prev[2] # last.arg
  /\ store.failedAttempts = 1
  /\ mem.isLocked

\* the table of the documentation, in milliseconds
TableDelay(n) ==
  IF n <= 3 THEN 0
  ELSE IF n <= 5 THEN 5 * 1000
  ELSE IF n <= 7 THEN 30 * 1000
  ELSE IF n <= 9 THEN 5 * 60 * 1000
  ELSE 30 * 60 * 1000

\* C6: the delay returned with the n-th failed attempt is the delay of the
\* table for n, and it does not decrease from one failure to the next.
C6_DelayTable ==
  [][ /\ Counts(last')
         => /\ last'.res.attempts >= 1
            /\ last'.res.delay = TableDelay(last'.res.attempts)
      /\ ( /\ Counts(last)
           /\ Counts(last')
           /\ last'.res.attempts = last.res.attempts + 1 )
         => last'.res.delay >= last.res.delay ]_vars

\* the 11th failure in a row has returned the delay of the last tier
C6_Witness ==
  /\ Counts(last)
  /\ last.res.attempts = 11
  /\ last.res.delay = 30 * 60 * 1000

\* C7: with maxAttempts = 10 the 10th wrong attempt in a row returns the
\* wiped result in paranoia mode and a locked result with the 30 minute
\* delay otherwise; the wrong attempts before it return neither.
C7_WipePrecedence ==
  ( /\ last.op = "unlock"
    /\ store.maxAttempts = 10
    /\ isPINSet(store)
    /\ ~IsCurrentPIN(store, last.arg)
    /\ last.before < 10 )
  => /\ (last.before + 1 = 10 /\ store.deleteOnMaxAttempts)
        => (Wiped(last) /\ "locked" \notin DOMAIN last.res)
     /\ (last.before + 1 = 10 /\ ~store.deleteOnMaxAttempts)
        => /\ Counts(last)
           /\ ~Wiped(last)
           /\ last.res.locked
           /\ last.res.delay = 30 * 60 * 1000
     /\ (last.before + 1 < 10)
        => (Counts(last) /\ ~Wiped(last) /\ ~last.res.locked)

\* the 10th wrong attempt in paranoia mode has returned the wiped result
C7_Witness ==
  /\ last.op = "unlock"
  /\ store.maxAttempts = 10
  /\ store.deleteOnMaxAttempts
  /\ last.before = 9
  /\ Wiped(last)
  /\ AllPartitions("absent")

\* C8: after the attempt that returned the wiped result no lockout is in
\* force.
C8_NoLockoutAfterWipe ==
  (last.op = "unlock" /\ Wiped(last)) => ~checkLockout(store, now).res.locked

\* C9: when an unlock returns the wiped result, both partitions are deleted
\* and the PIN protection is off (no record, pinEnabled false, counter 0)
\* with no answer of the user awaited.
C9_WipeDisablesPIN ==
  (last.op = "unlock" /\ Wiped(last))
  => /\ AllPartitions("absent")
     /\ store.pinData = Missing
     /\ ~store.pinEnabled
     /\ store.failedAttempts = 0
     /\ dialogs["paranoia"] = 0

\* C10: an unlock with the current PIN that arrives with
\* 0 < failedAttempts < maxAttempts sets the counter to 0 and deletes the
\* timestamp; a wrong attempt right after a successful unlock is attempt 1
\* with delay 0.
C10_ResetOnSuccess ==
  [][ /\ ( /\ last'.op = "unlock"
           /\ now' = now
           /\ last'.before = store.failedAttempts
           /\ IsCurrentPIN(store, last'.arg)
           /\ 0 < store.failedAttempts
           /\ store.failedAttempts < store.maxAttempts )
         => /\ last'.res.success
            /\ store'.failedAttempts = 0
            /\ store'.lastFailedAttempt = NoTimestamp
      /\ ( /\ last.op = "unlock"
           /\ last.res.success
           /\ last'.op = "unlock"
           /\ ~last'.res.success )
         => /\ Counts(last')
            /\ last'.res.attempts = 1
            /\ last'.res.delay = 0 ]_vars

\* a wrong attempt has been counted as attempt 1 right after an unlock that
\* succeeded with 5 failures on the counter
C10_Witness ==
  /\ last.op = "unlock"
  /\ Counts(last)
  /\ last.res.attempts = 1
  /\ prev[1] = "unlock"
  /\ prev[3] = 5
  /\ store.failedAttempts = 1

\* the requests that reach lockApp at once
LockRequests == {"lockNow", "lock", "suspend", "lock-screen"}

\* C11: with the PIN enabled a lockNow that arrives while isLocked is false
\* sets isLocked and calls the lock callback once; a lock request that
\* arrives while isLocked is true changes nothing and calls no callback (the
\* timer callback only ends its own timer).
C11_LockNowIdempotent ==
  [][ /\ (last'.op = "lockNow" /\ isPINEnabled(store) /\ ~mem.isLocked)
         => /\ mem'.isLocked
            /\ last'.calls.onLock = 1
            /\ store' = store
      /\ (last'.op \in LockRequests /\ mem.isLocked)
         => /\ mem' = mem
            /\ store' = store
            /\ sessions' = sessions
            /\ last'.calls.onLock = 0
      /\ (last'.op = "lockTimer" /\ mem.isLocked)
         => /\ mem' = [mem EXCEPT !.lockTimer = NoTimer]
            /\ store' = store
            /\ last'.calls.onLock = 0 ]_vars

\* a lockNow has arrived while the application was locked, with a timer
\* pending, and has called nothing
C11_Witness ==
  /\ last.op = "lockNow"
  /\ last.calls.onLock = 0
  /\ isPINEnabled(store)
  /\ mem.isLocked
  /\ mem.isShowingLockScreen
  /\ mem.lockTimer # NoTimer

\* C12: a start with the PIN enabled leaves isAppLocked true and no view
\* attached; a start without it leaves the application unlocked with a view
\* attached, and while the PIN is not enabled no lock request, timer or
\* power event changes the lock state.
C12_StartLocked ==
  [][ /\ (last'.op = "start" /\ isPINEnabled(store'))
         => (isAppLocked(mem') /\ mem'.attached = NoView)
      /\ (last'.op = "start" /\ ~isPINEnabled(store'))
         => /\ ~isAppLocked(mem')
            /\ ~mem'.isShowingLockScreen
            /\ mem'.attached # NoView
      /\ ( /\ last'.op \in LockRequests \cup {"lockTimer"}
           /\ ~isPINEnabled(store) )
         => /\ mem' = [mem EXCEPT !.lockTimer =
                         IF last'.op = "lockTimer" THEN NoTimer ELSE @]
            /\ last'.calls.onLock = 0 ]_vars

\* C13: an unlock with the current PIN that arrives while the application is
\* locked and no lockout is in force clears isLocked, sets the counter to 0,
\* calls the unlock callback once (lock screen hidden, view attached) and,
\* with auto-lock enabled, leaves a timer of the full autoLockTimeout
\* pending; an unlock with another PIN leaves the state as it was and calls
\* no callback.
C13_UnlockTransition ==
  [][ /\ ( /\ last'.op = "unlock"
           /\ mem.isLocked
           /\ IsCurrentPIN(store, last'.arg)
           /\ ~checkLockout(store, now).res.locked )
         => /\ last'.res.success
            /\ ~mem'.isLocked
            /\ store'.failedAttempts = 0
            /\ last'.calls.onUnlock = 1
            /\ ~mem'.isShowingLockScreen
            /\ mem'.attached = mem.currentAccount
            /\ store.autoLockEnabled
                 => mem'.lockTimer = <<store.autoLockTimeout * 60 * 1000>>
      /\ ( /\ last'.op = "unlock"
           /\ mem.isLocked
           /\ isPINSet(store)
           /\ ~IsCurrentPIN(store, last'.arg) )
         => /\ ~last'.res.success
            /\ mem' = mem
            /\ last'.calls.onUnlock = 0 ]_vars

\* C14: when the inactivity timer fires while isLocked is false and the PIN
\* is enabled, isLocked becomes true and the lock callback is called once,
\* after which no view is attached and the lock screen is shown.
C14_TimerLocks ==
  [][ (last'.op = "lockTimer" /\ ~mem.isLocked /\ isPINEnabled(store))
      => /\ mem'.isLocked
         /\ last'.calls.onLock = 1
         /\ mem'.attached = NoView
         /\ mem'.isShowingLockScreen
         /\ mem'.lockWindow = "lock" ]_vars

\* C15: a suspend (lock-screen) event that arrives while isLocked is false and
\* the PIN is enabled locks the application exactly when lockOnSuspend
\* (lockOnScreenLock) is set in the store at that time, and no event calls
\* the lock callback more than once.
C15_PowerEventsFollowSettings ==
  [][ /\ (last'.op = "suspend" /\ ~mem.isLocked /\ isPINEnabled(store))
         => /\ mem'.isLocked <=> store.lockOnSuspend
            /\ last'.calls.onLock = IF store.lockOnSuspend THEN 1 ELSE 0
      /\ (last'.op = "lock-screen" /\ ~mem.isLocked /\ isPINEnabled(store))
         => /\ mem'.isLocked <=> store.lockOnScreenLock
            /\ last'.calls.onLock = IF store.lockOnScreenLock THEN 1 ELSE 0
      /\ (last'.op \in {"suspend", "lock-screen"})
         => last'.calls.onLock <= 1 ]_vars

\* a lockout is in force: the counter has reached maxAttempts and less than
\* lockoutDuration minutes have passed since the last failure
LockoutInForce ==
  /\ store.failedAttempts >= store.maxAttempts
  /\ store.lastFailedAttempt # NoTimestamp
  /\ now - store.lastFailedAttempt[1] < store.lockoutDuration * 60 * 1000

\* C16: while a lockout is in force every unlock and verifyPIN request, the
\* one with the current PIN included, returns a locked result with a positive
\* remaining time and leaves the store (counter, timestamp, PIN record), the
\* lock state and the sessions unchanged.
C16_LockoutRejects ==
  [][ ( /\ LockoutInForce
        /\ now' = now
        /\ last'.op \in {"unlock", "verifyPIN"} )
      => /\ ~last'.res.success
         /\ "locked" \in DOMAIN last'.res
         /\ last'.res.locked
         /\ "remainingTime" \in DOMAIN last'.res
         /\ last'.res.remainingTime > 0
         /\ store' = store
         /\ mem' = mem
         /\ sessions' = sessions ]_vars

\* an unlock with the current PIN has been rejected some time into a
\* lockout, the application being locked
C16_Witness ==
  /\ last.op = "unlock"
  /\ IsCurrentPIN(store, last.arg)
  /\ "remainingTime" \in DOMAIN last.res
  /\ last.res.remainingTime > 0
  /\ last.res.remainingTime < store.lockoutDuration * 60 * 1000
  /\ LockoutInForce
  /\ mem.isLocked

\* C17: after a failed attempt whose result carries a delay d > 0, no PIN
\* sent before d has passed since that attempt is verified: it neither
\* changes the counter nor unlocks.
C17_DelayEnforced ==
  [][ ( /\ Counts(last)
        /\ last.res.delay > 0
        /\ store.lastFailedAttempt # NoTimestamp
        /\ now - store.lastFailedAttempt[1] < last.res.delay
        /\ now' = now
        /\ last'.op = "unlock" )
      => /\ store'.failedAttempts = store.failedAttempts
         /\ ~last'.res.success ]_vars

\* C18: setPIN succeeds exactly for the strings of 4 to 8 digits; for every
\* other string it fails and leaves the PIN record, pinEnabled and the
\* counter as they were.
C18_SetPINValidates ==
  [][ (last'.op = "setPIN")
      => /\ last'.res.success <=> ValidPIN(last'.arg)
         /\ ~ValidPIN(last'.arg)
              => /\ store'.pinData = store.pinData
                 /\ store'.pinEnabled = store.pinEnabled
                 /\ store'.failedAttempts = store.failedAttempts ]_vars

\* C19: a start changes neither the PIN record nor pinEnabled nor the
\* counter, deletes no session, and leaves the module state it would leave
\* without a snapshot, the warning apart; while the warning is open an unlock
\* with the current PIN succeeds; and sessions are deleted while it is open
\* only by the answer Logout All Sessions.
C19_IntegrityAdvisory ==
  [][ /\ (last'.op = "start")
         => /\ store'.pinData = store.pinData
            /\ store'.pinEnabled = store.pinEnabled
            /\ store'.failedAttempts = store.failedAttempts
            /\ store'.lastFailedAttempt = store.lastFailedAttempt
            /\ \A p \in Partitions :
                  sessions'[p] = "absent" => sessions[p] = "absent"
            /\ [mem' EXCEPT !.integrityWarning = FALSE]
                 = Startup([store' EXCEPT !.sessionHashes = Missing], sessions')
      /\ ( /\ mem.integrityWarning
           /\ last'.op = "unlock"
           /\ IsCurrentPIN(store, last'.arg)
           /\ ~LockoutInForce )
         => /\ last'.res.success
            /\ ~mem'.isLocked
            /\ ~mem'.isShowingLockScreen
      /\ ( /\ mem.integrityWarning
           /\ \E p \in Partitions :
                 sessions[p] # "absent" /\ sessions'[p] = "absent" )
         => /\ last'.op = "integrityDialog"
            /\ last'.arg = <<"logout">> ]_vars

\* the application has been unlocked with the warning of a mismatch open
C19_Witness ==
  /\ mem.integrityWarning
  /\ ~verifySessionIntegrity(store, sessions).verified
  /\ last.op = "unlock"
  /\ last.res.success
  /\ ~mem.isLocked
  /\ AllPartitions("data") \/ sessions["persist:whatsapp-personal"] = "modified"

\* C20: security:resetApp itself changes nothing; on Cancel the store (PIN
\* record, pinEnabled, counter, snapshot), the sessions and the module state
\* are unchanged and the call resolves false; on Reset Everything the PIN
\* record is removed, pinEnabled is false, the counter is 0, both partitions
\* and the snapshot are deleted, the call resolves true and the application
\* starts again.
C20_ResetNeedsConfirmation ==
  [][ /\ (last'.op = "resetApp")
         => (store' = store /\ sessions' = sessions /\ mem' = mem)
      /\ (last'.op = "resetDialog" /\ last'.arg = <<"manual", "cancel">>)
         => /\ store' = store
            /\ sessions' = sessions
            /\ mem' = mem
            /\ ~last'.res.resolved
      /\ (last'.op = "resetDialog" /\ last'.arg = <<"manual", "confirm">>)
         => /\ store'.pinData = Missing
            /\ ~store'.pinEnabled
            /\ store'.failedAttempts = 0
            /\ store'.lastFailedAttempt = NoTimestamp
            /\ store'.sessionHashes = Missing
            /\ \A p \in Partitions : sessions'[p] = "absent"
            /\ last'.res.resolved
            /\ mem' = Startup(store', sessions') ]_vars

\* a reset has been confirmed with a PIN set and a failure counted before it
C20_Witness ==
  /\ last.op = "resetDialog"
  /\ last.arg = <<"manual", "confirm">>
  /\ last.res.resolved
  /\ last.before = 1
  /\ store.pinData = Missing
  /\ store.sessionHashes = Missing
  /\ AllPartitions("absent")
  /\ ~mem.isLocked


\* C21: with paranoia mode off, the failed attempt that reaches maxAttempts
\* starts a lockout of the configured lockoutDuration, and the duration its
\* result reports to the caller is that configured value, whatever
\* maxAttempts and lockoutDuration are
C21_LockoutDurationReported ==
  [][(/\ now' = now
      /\ last'.op \in {"verifyPIN", "unlock"}
      /\ ~store.deleteOnMaxAttempts
      /\ "attempts" \in DOMAIN last'.res
      /\ last'.res.attempts >= store'.maxAttempts)
     => /\ last'.res.locked
        /\ checkLockout(store', now').res.locked
        /\ checkLockout(store', now').res.remainingTime
             = store'.lockoutDuration * 60 * 1000
        /\ last'.res.delay = store'.lockoutDuration * 60 * 1000]_vars

\* C22: at most one inactivity timeout is pending: every arming through
\* resetLockTimer, also by a second run of initAutoLock, cancels the one
\* pending before, so that an arming cycle requests at most one lock
C22_OneTimerPending == PendingTimers(mem) <= 1

\* initAutoLock has run a second time while a timeout was pending, and has
\* armed a new one
C22_Witness ==
  /\ last.op = "activate"
  /\ last.pending = 1
  /\ mem.lockTimer # NoTimer
  /\ PendingTimers(mem) = 1

\* C23: disabling auto-lock cancels the pending timer: once autoLockEnabled
\* is false, or the PIN is removed or disabled, no inactivity timeout is
\* pending, so that none armed before the change can request a lock
C23_DisableCancelsTimer ==
  (~store.autoLockEnabled \/ ~isPINEnabled(store)) => PendingTimers(mem) = 0

\* C24: no inactivity timeout is pending while the application is not
\* unlocked: while the lock screen shows (at a start with a PIN, after a
\* lock) none is armed, and no activity signal or settings update arms one
C24_NoTimerWhileLocked ==
  (mem.isLocked \/ mem.isShowingLockScreen) => PendingTimers(mem) = 0

\* the counter has reached maxAttempts and lockoutDuration minutes or more
\* have passed since the last failure
LockoutExpired ==
  /\ store.failedAttempts >= store.maxAttempts
  /\ store.lastFailedAttempt # NoTimestamp
  /\ now - store.lastFailedAttempt[1] >= store.lockoutDuration * 60 * 1000

CountdownRunning ==
  /\ mem.ui.isLocked
  /\ IF mem.ui.lockoutEndNaN THEN TRUE
     ELSE mem.ui.lockoutEndTime[1] <= StartMs + MaxTicks * TickMs

\* C26: when an unlock attempt puts or finds the application in lockout, the
\* lock screen counts the remaining time down and eventually enables input
\* again (isLocked false), also after the attempt that reaches maxAttempts
C26_CountdownEnables == CountdownRunning ~> ~mem.ui.isLocked

\* C27: no under-counting.  Every verifyPIN or unlock request with a wrong
\* PIN processed while no lockout is in force, whichever channel it comes
\* from and whatever requests come before and after it, adds exactly 1 to
\* the counter in force (0 when a lockout has just run out), and the wipe,
\* the lockout, the delay and the remaining attempts of its result are
\* those of the count it has stored.
C27_NoUnderCounting ==
  [][ ( /\ now' = now
        /\ last'.op \in {"verifyPIN", "unlock"}
        /\ isPINSet(store)
        /\ ~IsCurrentPIN(store, last'.arg)
        /\ ~LockoutInForce )
      => LET counted == checkLockout(store, now).store.failedAttempts + 1
         IN /\ store'.failedAttempts = counted
            /\ IF counted >= store.maxAttempts /\ store.deleteOnMaxAttempts
               THEN /\ Wiped(last')
                    /\ \A p \in Partitions : sessions'[p] = "absent"
               ELSE /\ Counts(last')
                    /\ last'.res.attempts = counted
                    /\ last'.res.locked = (counted >= store.maxAttempts)
                    /\ last'.res.delay = getDelayForAttempts(counted)
                    /\ last'.res.remaining = Max(0, store.maxAttempts - counted)
                    /\ sessions' = sessions ]_vars

\* a wrong PIN sent with verifyPIN, after others have been counted, has
\* brought the counter to maxAttempts and its result is the locked one
C27_Witness ==
  /\ last.op = "verifyPIN"
  /\ Counts(last)
  /\ last.before >= 2
  /\ last.res.attempts = last.before + 1
  /\ store.failedAttempts = store.maxAttempts
  /\ last.res.locked

\* C28: the counter is capped: whatever unlock, verifyPIN, checkLockout,
\* setPIN and settings requests arrive, the stored failedAttempts never
\* exceeds the maxAttempts configured at the time
C28_CounterCapped == store.failedAttempts <= store.maxAttempts

\* C29: the weaker storage is never silent.  The result of a setPIN that
\* has stored the record without encryption differs from the result of the
\* encrypted save, and a record stays verifiable when the availability of
\* the secret store changes: outside a lockout a request with the PIN of
\* the record succeeds.
C29_FallbackNotSilent ==
  [][ /\ ( /\ last'.op = "setPIN"
           /\ last'.res.success
           /\ ~store'.pinData.encrypted )
         => last'.res # [success |-> setPIN(store, last'.arg, 1, TRUE)[2]]
      /\ ( /\ last'.op \in {"verifyPIN", "unlock"}
           /\ IsCurrentPIN(store, last'.arg)
           /\ ~LockoutInForce )
         => last'.res.success ]_vars

\* C30: an error inside the verification (the record cannot be decrypted or
\* parsed) yields a result that is not a success and leaves everything as
\* it was: the lock state and the lock screen, the unlock callback not
\* called, the record, the counter and the sessions.
C30_VerificationErrorFailsClosed ==
  [][ ( /\ last'.op \in {"verifyPIN", "unlock"}
        /\ isPINSet(store)
        /\ ~CanDecodePinData(store.pinData, encAvail)
        /\ ~LockoutInForce )
      => /\ ~last'.res.success
         /\ last'.res.message = <<"Verification error">>
         /\ mem' = mem
         /\ last'.op = "unlock" => last'.calls.onUnlock = 0
         /\ store'.pinData = store.pinData
         /\ store'.pinEnabled = store.pinEnabled
         /\ store'.failedAttempts = checkLockout(store, now).store.failedAttempts
         /\ sessions' = sessions ]_vars

\* an unlock with the PIN of the record has ended in the verification error
\* and the lock screen is still shown
C30_Witness ==
  /\ last.op = "unlock"
  /\ IsCurrentPIN(store, last.arg)
  /\ "message" \in DOMAIN last.res
  /\ last.res.message = <<"Verification error">>
  /\ ~last.res.success
  /\ mem.isLocked
  /\ mem.isShowingLockScreen
  /\ mem.attached = NoView

\* C31: every wipe invalidates the integrity snapshot.  The step in which
\* secureDeleteAllSessions runs (paranoia mode, confirmed reset, Logout All
\* Sessions) leaves no snapshot in the store, and as long as the sessions
\* are the wiped ones the verification of a start reports no mismatch and
\* no start shows the integrity warning.
C31_WipeInvalidatesSnapshot ==
  [][ /\ ( \/ Wiped(last')
           \/ (last'.op = "resetDialog" /\ last'.res.resolved)
           \/ (last'.op = "integrityDialog" /\ last'.arg = <<"logout">>) )
         => /\ AllPartitions("absent")'
            /\ store'.sessionHashes = Missing
      /\ AllPartitions("absent")'
         => /\ verifySessionIntegrity(store', sessions').verified
            /\ last'.op = "start" => ~mem'.integrityWarning ]_vars

\* Logout All Sessions of the integrity warning, which only a persisted
\* snapshot raises, has wiped the sessions and no snapshot is left
C31_Witness ==
  /\ last.op = "integrityDialog"
  /\ last.arg = <<"logout">>
  /\ AllPartitions("absent")
  /\ store.sessionHashes = Missing
  /\ ~mem.integrityWarning

\* the calls of fs of an erase without failure on a file of n bytes
CleanErase(n) ==
  << <<"statSync", 0, TRUE>>,
     <<"writeFileSync", n, TRUE>>, <<"writeFileSync", n, TRUE>>,
     <<"writeFileSync", n, TRUE>>,
     <<"unlinkSync", 0, TRUE>> >>

\* C32: secureDeleteFile on an existing file makes three overwrites of the
\* full length of the file with random data and only then unlinks it, and
\* the path does not exist afterwards; when an overwrite fails it goes on
\* to a plain unlink, which removes the path; whatever fails, no exception
\* reaches the caller.
C32_SecureDeleteFile ==
  [][ (last'.op = "secureDeleteFile" /\ sessions[last'.arg[1]].exists)
      => LET f == last'.arg[1]
             fault == last'.arg[2]
             fallbackFails == last'.arg[3]
             ops == last'.res.ops
         IN /\ ~last'.res.thrown
            /\ fault = "none"
               => /\ ops = CleanErase(sessions[f].size)
                  /\ ~sessions'[f].exists
            /\ (fault \in {"write1", "write2", "write3"} /\ ~fallbackFails)
               => /\ ops[Len(ops)] = <<"unlinkSync", 0, TRUE>>
                  /\ ops[Len(ops) - 1] = <<"writeFileSync", sessions[f].size, FALSE>>
                  /\ ~sessions'[f].exists ]_vars

\* a file of two bytes has been overwritten three times and unlinked
C32_Witness ==
  /\ last.op = "secureDeleteFile"
  /\ last.arg[2] = "none"
  /\ last.res.ops = CleanErase(2)
  /\ ~sessions[last.arg[1]].exists

\* C33: erase failures are observable.  When secureDeleteFile has used the
\* plain unlink of its catch block, what it returns differs from what it
\* returns after a clean erase; and when files of the partition are left
\* because that unlink (and rmSync) failed too, secureDeleteSession reports
\* the failure, by its result or by an exception.
C33_EraseFailureObservable ==
  [][ /\ ( /\ last'.op = "secureDeleteFile"
           /\ sessions[last'.arg[1]].exists
           /\ last'.arg[2] # "none" )
         => \/ last'.res.thrown
            \/ last'.res.returned
                 # secureDeleteFile(sessions[last'.arg[1]], "none", FALSE).returned
      /\ ( /\ last'.op = "secureDeleteSession"
           /\ \E f \in Files : sessions'[f].exists )
         => \/ last'.res.thrown
            \/ last'.res.returned # Undefined ]_vars

\* C34: a request whose sender is none of the windows of the application
\* (main, settings, lock) changes nothing: not the PIN record, pinEnabled,
\* the attempt counter, the lock state, the lock screen, the settings or
\* the sessions
C34_ForeignSenderRejected ==
  [][ ("sender" \in DOMAIN last' /\ last'.sender = "view")
      => /\ store' = store
         /\ mem' = mem
         /\ sessions' = sessions
         /\ dialogs' = dialogs ]_vars

VerifyingRequests == {"unlock", "verifyPIN", "changePIN", "removePIN"}

\* the PIN a verifying request asks to verify
PinOf(r) == IF r.op = "changePIN" THEN r.arg[1] ELSE r.arg

\* C35: the verification channels share one attempt counter.  Outside a
\* lockout a wrong PIN sent with unlock, verifyPIN, changePIN or removePIN
\* adds 1 to the same stored counter, sets the time of the last failure and
\* starts the lockout or, in paranoia mode, the wipe at maxAttempts; during
\* a lockout each of the four is rejected and changes nothing, the right
\* PIN included.
C35_OneCounter ==
  [][ /\ ( /\ now' = now
           /\ last'.op \in VerifyingRequests
           /\ LockoutInForce )
         => /\ ~last'.res.success
            /\ store' = store
            /\ mem' = mem
            /\ sessions' = sessions
      /\ ( /\ now' = now
           /\ last'.op \in VerifyingRequests
           /\ ~LockoutInForce
           /\ isPINSet(store)
           /\ ~IsCurrentPIN(store, PinOf(last')) )
         => LET counted == checkLockout(store, now).store.failedAttempts + 1
            IN /\ ~last'.res.success
               /\ store'.failedAttempts = counted
               /\ store'.lastFailedAttempt = <<now>>
               /\ store'.pinData = store.pinData
               /\ (counted >= store.maxAttempts /\ store.deleteOnMaxAttempts)
                  => AllPartitions("absent")'
               /\ (counted >= store.maxAttempts /\ ~store.deleteOnMaxAttempts)
                  => LockoutInForce' ]_vars

\* changePIN with the current PIN has been rejected during a lockout that a
\* wrong PIN sent with removePIN or any other channel has started
C35_Witness ==
  /\ last.op = "changePIN"
  /\ IsCurrentPIN(store, last.arg[1])
  /\ ~last.res.success
  /\ LockoutInForce
  /\ store.failedAttempts = store.maxAttempts

C37_LockRequestNeverLost ==
  /\ [](mem.isShowingLockScreen \/ ~mem.isLocked)
  /\ [][(/\ now' = now
         /\ \/ last'.op \in {"lockNow", "lockTimer"}
            \/ last'.op = "suspend" /\ mem.suspendListener
            \/ last'.op = "lock-screen" /\ mem.lockScreenListener
         /\ isPINEnabled(store)
         /\ ~mem.isShowingLockScreen)
          => mem'.isShowingLockScreen]_vars

\* C38: auto-lock is armed whenever it should be: while the application is
\* unlocked with a PIN enabled and autoLockEnabled true, the inactivity
\* timeout is pending (so that without activity the application locks after
\* autoLockTimeout minutes), the state right after a first PIN is set during
\* a session included.
C38_AutoLockArmed ==
  (~mem.isLocked /\ isPINEnabled(store) /\ store.autoLockEnabled)
    => mem.lockTimer # NoTimer

\* C39: entering the correct PIN never costs an attempt.  While the user
\* types the digits of the configured PIN (4 to 8 of them) one at a time,
\* with any pauses, every security.unlock request the lock window sends
\* carries the complete PIN, and no failed attempt is recorded for a proper
\* prefix of it.
C39_CorrectPinCostsNothing ==
  /\ store.failedAttempts = 0
  /\ mem.ui.inFlight # << >> => IsConfigured(mem.ui.inFlight[1])
  /\ last.op = "unlock" => last.res.success
====
